---- MODULE Spec2Model ----
(***************************************************************************)
(* A model of the HOTP credential store of oath-toolkit:                   *)
(*   src/libhotp/usersfile.c  (parse_usersfile, update_usersfile2,         *)
(*                             update_usersfile,                           *)
(*                             hotp_authenticate_usersfile)                *)
(*   src/liboath/hotp.c       (oath_hotp_generate,                         *)
(*                             oath_hotp_validate_callback,                *)
(*                             oath_hotp_validate)                         *)
(*                                                                         *)
(* Files are sequences of characters (one-character strings; "NUL" stands  *)
(* for the byte 0).  A uint64_t is four 16-bit limbs, most significant     *)
(* first, so that arithmetic wraps modulo 2^64 exactly as in C.            *)
(***************************************************************************)
EXTENDS Integers, Sequences, FiniteSets, TLC

(***************************************************************************)
(* Characters and C strings                                                *)
(***************************************************************************)
NUL == "NUL"

\* static const char *whitespace = " \t\r\n";
whitespace == {" ", "\t", "\r", "\n"}

\* isspace in the C locale, which strtoull and strptime skip before a number:
\* space, tab, newline, vertical tab (the byte 11), form feed, return.
isspace == {" ", "\t", "\n", "", "\f", "\r"}

\* The index of the first character of s, from index i on, that is not white
\* space (Len(s) + 1 when there is none).
RECURSIVE SkipSpace(_, _)
SkipSpace(s, i) ==
  IF i <= Len(s) /\ s[i] \in isspace THEN SkipSpace(s, i + 1) ELSE i

DecDigits == {"0", "1", "2", "3", "4", "5", "6", "7", "8", "9"}

DigitVal(c) ==
  CASE c = "0" -> 0 [] c = "1" -> 1 [] c = "2" -> 2 [] c = "3" -> 3
    [] c = "4" -> 4 [] c = "5" -> 5 [] c = "6" -> 6 [] c = "7" -> 7
    [] c = "8" -> 8 [] c = "9" -> 9

DigitChar(d) ==
  CASE d = 0 -> "0" [] d = 1 -> "1" [] d = 2 -> "2" [] d = 3 -> "3"
    [] d = 4 -> "4" [] d = 5 -> "5" [] d = 6 -> "6" [] d = 7 -> "7"
    [] d = 8 -> "8" [] d = 9 -> "9"

\* The C string held in a buffer: the characters before the first NUL.
RECURSIVE CStr(_)
CStr(s) ==
  IF s = <<>> \/ Head(s) = NUL THEN <<>> ELSE <<Head(s)>> \o CStr(Tail(s))

\* strtok_r: skip the leading delimiters of s.
RECURSIVE SkipDelims(_)
SkipDelims(s) ==
  IF s # <<>> /\ Head(s) \in whitespace THEN SkipDelims(Tail(s)) ELSE s

\* strtok_r: the token at the head of s (s starts with a non-delimiter).
RECURSIVE TakeToken(_)
TakeToken(s) ==
  IF s = <<>> \/ Head(s) \in whitespace THEN <<>>
  ELSE <<Head(s)>> \o TakeToken(Tail(s))

\* The tokens successive strtok_r (.., whitespace, &saveptr) calls return on
\* a C string, in order; the call after the last one returns NULL.
RECURSIVE TokensOf(_)
TokenThen(r, t) == <<t>> \o TokensOf(SubSeq(r, Len(t) + 2, Len(r)))

TokensFrom(r) == IF r = <<>> THEN <<>> ELSE TokenThen(r, TakeToken(r))

TokensOf(s) == TokensFrom(SkipDelims(s))

strtok_r(line) == TokensOf(CStr(line))

\* getline: the line that starts after position pos of a file's content, up
\* to and including the next newline, or up to the end of the file.
RECURSIVE LineFrom(_, _)
LineFrom(content, pos) ==
  IF pos >= Len(content) THEN <<>>
  ELSE IF content[pos + 1] = "\n" THEN <<"\n">>
  ELSE <<content[pos + 1]>> \o LineFrom(content, pos + 1)

getline(content, pos) == LineFrom(content, pos)

\* All the lines successive getline calls return from position pos on.
RECURSIVE LinesFrom(_, _)
LineThen(content, pos, l) ==
  IF l = <<>> THEN <<>> ELSE <<l>> \o LinesFrom(content, pos + Len(l))

LinesFrom(content, pos) == LineThen(content, pos, getline(content, pos))

Lines(content) == LinesFrom(content, 0)

(***************************************************************************)
(* uint64_t as four 16-bit limbs, most significant first                   *)
(***************************************************************************)
Limb == 256 * 256

U64(n) == <<0, 0, n \div Limb, n % Limb>>

ULLONG_MAX == <<Limb - 1, Limb - 1, Limb - 1, Limb - 1>>

\* x + k in uint64_t arithmetic, for 0 <= k < 2^31 - 2^16: the carry out of
\* the top limb is dropped.
Carry3(s1, s2, s3, s4) == <<s1 % Limb, s2 % Limb, s3 % Limb, s4 % Limb>>

Carry2(x, s2, s3, s4) == Carry3(x[1] + (s2 \div Limb), s2, s3, s4)

Carry1(x, s3, s4) == Carry2(x, x[2] + (s3 \div Limb), s3, s4)

Carry0(x, s4) == Carry1(x, x[3] + (s4 \div Limb), s4)

Add64(x, k) == Carry0(x, x[4] + k)

\* 0 - x in uint64_t arithmetic.
Neg64(x) ==
  Add64(<<Limb - 1 - x[1], Limb - 1 - x[2], Limb - 1 - x[3], Limb - 1 - x[4]>>, 1)

\* x < y as unsigned 64-bit integers.
Less64(x, y) ==
  \E i \in 1..4 : x[i] < y[i] /\ \A j \in 1..(i - 1) : x[j] = y[j]

\* strtoull, base 10: accumulate the decimal digits of s from index i on;
\* ovf records that the value left the range of unsigned long long.
RECURSIVE ScanDigits(_, _, _, _)
Scan3(s, i, ovf, t1, t2, t3, t4) ==
  ScanDigits(s, i + 1, <<t1 % Limb, t2 % Limb, t3 % Limb, t4 % Limb>>,
             ovf \/ t1 >= Limb)

Scan2(s, i, acc, ovf, t2, t3, t4) ==
  Scan3(s, i, ovf, acc[1] * 10 + (t2 \div Limb), t2, t3, t4)

Scan1(s, i, acc, ovf, t3, t4) ==
  Scan2(s, i, acc, ovf, acc[2] * 10 + (t3 \div Limb), t3, t4)

Scan0(s, i, acc, ovf, t4) == Scan1(s, i, acc, ovf, acc[3] * 10 + (t4 \div Limb), t4)

ScanDigits(s, i, acc, ovf) ==
  IF i > Len(s) \/ s[i] \notin DecDigits THEN [val |-> acc, ovf |-> ovf, end |-> i]
  ELSE Scan0(s, i, acc, ovf, acc[4] * 10 + DigitVal(s[i]))

\* strtoull (p, &endptr, 10): leading white space, an optional sign, then
\* digits; first is the index of the first digit.  end is the index endptr
\* points at (Len(p) + 1 is the terminating NUL); without any digit
\* endptr = p.
Scanned(p, first, r) ==
  IF r.end = first THEN [val |-> U64(0), end |-> 1]
  ELSE IF r.ovf THEN [val |-> ULLONG_MAX, end |-> r.end]
  ELSE IF first > 1 /\ p[first - 1] = "-" THEN [val |-> Neg64(r.val), end |-> r.end]
  ELSE [val |-> r.val, end |-> r.end]

ScanFrom(p, first) == Scanned(p, first, ScanDigits(p, first, U64(0), FALSE))

\* The sign, at index j, the first character after the white space.
ScanSigned(p, j) == ScanFrom(p, IF j <= Len(p) /\ p[j] \in {"+", "-"} THEN j + 1 ELSE j)

strtoull(p) == ScanSigned(p, SkipSpace(p, 1))

\* x divided by ten: quotient limbs and remainder, by long division.
Div3(c1, c2, c3, c4) ==
  [q |-> <<c1 \div 10, c2 \div 10, c3 \div 10, c4 \div 10>>, r |-> c4 % 10]

Div2(x, c1, c2, c3) == Div3(c1, c2, c3, (c3 % 10) * Limb + x[4])

Div1(x, c1, c2) == Div2(x, c1, c2, (c2 % 10) * Limb + x[3])

DivMod10(x) == Div1(x, x[1], (x[1] % 10) * Limb + x[2])

\* printf ("%llu", x): the decimal digits of x, without leading zeros.
RECURSIVE FmtLLU(_)
FmtDigits(d) ==
  IF d.q = U64(0) THEN <<DigitChar(d.r)>> ELSE FmtLLU(d.q) \o <<DigitChar(d.r)>>

FmtLLU(x) == FmtDigits(DivMod10(x))

\* printf ("%.*ld", digits, v): v in decimal, left-padded with zeros to at
\* least `digits` characters (0 <= v < 2^31).
RECURSIVE FmtDec(_)
FmtDec(v) ==
  IF v < 10 THEN <<DigitChar(v)>> ELSE FmtDec(v \div 10) \o <<DigitChar(v % 10)>>

RECURSIVE ZeroPad(_, _)
ZeroPad(s, width) == IF Len(s) >= width THEN s ELSE ZeroPad(<<"0">> \o s, width)

FmtPrecLd(digits, v) == ZeroPad(FmtDec(v), digits)

(***************************************************************************)
(* src/liboath/hotp.c                                                      *)
(***************************************************************************)
\* gc_hmac_sha1 (secret, secret_length, counter, 8, hs) of gnulib's gc:
\* HMAC (RFC 2104) with SHA-1 (FIPS 180-1).  A 32-bit word is a pair of
\* 16-bit halves <<high, low>>; a digest is 20 bytes.
RECURSIVE BitXor(_, _)
BitXor(a, b) ==
  IF a = 0 THEN b ELSE IF b = 0 THEN a
  ELSE ((a + b) % 2) + 2 * BitXor(a \div 2, b \div 2)

RECURSIVE BitAnd(_, _)
BitAnd(a, b) ==
  IF a = 0 \/ b = 0 THEN 0 ELSE ((a % 2) * (b % 2)) + 2 * BitAnd(a \div 2, b \div 2)

Xor32(x, y) == <<BitXor(x[1], y[1]), BitXor(x[2], y[2])>>

Add32(x, y) ==
  <<(x[1] + y[1] + (x[2] + y[2]) \div 65536) % 65536, (x[2] + y[2]) % 65536>>

Rotl(x, n) ==
  <<((x[1] * 2^n) % 65536) + (x[2] \div 2^(16 - n)),
    ((x[2] * 2^n) % 65536) + (x[1] \div 2^(16 - n))>>

F16(t, b, c, d) ==
  IF t < 20 THEN BitXor(BitAnd(b, c), BitAnd(65535 - b, d))
  ELSE IF t >= 40 /\ t < 60
       THEN BitXor(BitXor(BitAnd(b, c), BitAnd(b, d)), BitAnd(c, d))
  ELSE BitXor(BitXor(b, c), d)

F32(t, b, c, d) == <<F16(t, b[1], c[1], d[1]), F16(t, b[2], c[2], d[2])>>

K32(t) ==
  IF t < 20 THEN <<23170, 31129>> ELSE IF t < 40 THEN <<28377, 60321>>
  ELSE IF t < 60 THEN <<36635, 48348>> ELSE <<51810, 49622>>

\* W[t] of the message schedule, for the words w found so far.
NextWord(block, w) ==
  IF Len(w) < 16
  THEN <<block[4 * Len(w) + 1] * 256 + block[4 * Len(w) + 2],
         block[4 * Len(w) + 3] * 256 + block[4 * Len(w) + 4]>>
  ELSE Rotl(Xor32(Xor32(w[Len(w) - 2], w[Len(w) - 7]),
                  Xor32(w[Len(w) - 13], w[Len(w) - 15])), 1)

RECURSIVE Expand(_, _, _)
Expand(block, w, n) ==
  IF Len(w) >= n THEN w
  ELSE IF n - Len(w) = 1 THEN Append(w, NextWord(block, w))
  ELSE Expand(block, Expand(block, w, (Len(w) + n) \div 2), n)

Round(h, w, t) ==
  <<Add32(Add32(Add32(Rotl(h[1], 5), F32(t, h[2], h[3], h[4])), Add32(h[5], K32(t))),
          w[t + 1]),
    h[1], Rotl(<<h[2][2], h[2][1]>>, 14), h[3], h[4]>>

\* The rounds from to .. to - 1.
RECURSIVE Rounds(_, _, _, _)
Rounds(h, w, from, to) ==
  IF Len(h) = 5 /\ to - from = 1 THEN Round(h, w, from)
  ELSE Rounds(Rounds(h, w, from, (from + to) \div 2), w, (from + to) \div 2, to)

AddState(h, r) ==
  <<Add32(h[1], r[1]), Add32(h[2], r[2]), Add32(h[3], r[3]), Add32(h[4], r[4]),
    Add32(h[5], r[5])>>

RECURSIVE Sha1Blocks(_, _, _)
Sha1Blocks(h, m, i) ==
  IF Len(h) = 5 /\ i > Len(m) THEN h
  ELSE Sha1Blocks(AddState(h, Rounds(h, Expand(SubSeq(m, i, i + 63), <<>>, 80), 0, 80)),
                  m, i + 64)

Fill(byte, n) == [i \in 1..n |-> byte]

Sha1Pad(m) ==
  m \o <<128>> \o Fill(0, (64 - ((Len(m) + 9) % 64)) % 64)
  \o <<0, 0, 0, 0, (Len(m) \div 2097152) % 256, (Len(m) \div 8192) % 256,
       (Len(m) \div 32) % 256, (Len(m) * 8) % 256>>

WordBytes(x) == <<x[1] \div 256, x[1] % 256, x[2] \div 256, x[2] % 256>>

Sha1Digest(h) ==
  WordBytes(h[1]) \o WordBytes(h[2]) \o WordBytes(h[3]) \o WordBytes(h[4])
  \o WordBytes(h[5])

Sha1(m) ==
  Sha1Digest(Sha1Blocks(<<<<26437, 8961>>, <<61389, 43913>>, <<39098, 56574>>,
                          <<4146, 21622>>, <<50130, 57840>>>>, Sha1Pad(m), 1))

XorPad(key, pad) == [i \in 1..64 |-> BitXor(IF i <= Len(key) THEN key[i] ELSE 0, pad)]

HmacKeyed(key, text) == Sha1(XorPad(key, 92) \o Sha1(XorPad(key, 54) \o text))

hmac_sha1(key, text) == HmacKeyed(IF Len(key) > 64 THEN Sha1(key) ELSE key, text)

\* The digests of the secrets and counters of the runs, as hmac_sha1 gives
\* them: looked up instead of computed again.
HmacTable ==
  <<<<0>>, <<0, 0, 0, 0, 0, 0, 0, 0>>>> :> <<218, 182, 154, 217, 142, 40, 118, 79, 151, 126, 226, 72, 126, 79, 63, 104, 115, 178, 162, 151>>
  @@ <<<<0>>, <<0, 0, 0, 0, 0, 0, 0, 1>>>> :> <<238, 176, 11, 11, 204, 134, 70, 121, 255, 45, 141, 211, 11, 236, 73, 92, 181, 242, 238, 158>>
  @@ <<<<0>>, <<0, 0, 0, 0, 0, 0, 0, 2>>>> :> <<177, 111, 139, 209, 46, 204, 48, 149, 241, 100, 19, 190, 113, 82, 213, 229, 8, 196, 23, 206>>
  @@ <<<<0>>, <<0, 0, 0, 0, 0, 0, 0, 3>>>> :> <<224, 43, 194, 154, 77, 245, 0, 208, 21, 94, 73, 177, 175, 73, 191, 103, 22, 61, 35, 169>>
  @@ <<<<0>>, <<0, 0, 0, 0, 0, 0, 0, 4>>>> :> <<153, 97, 98, 118, 164, 49, 148, 153, 93, 15, 2, 90, 240, 179, 254, 143, 218, 237, 146, 141>>
  @@ <<<<0>>, <<0, 0, 0, 0, 0, 0, 0, 5>>>> :> <<62, 25, 144, 80, 76, 45, 21, 112, 88, 0, 160, 18, 147, 155, 134, 66, 116, 176, 10, 232>>
  @@ <<<<0>>, <<0, 0, 0, 0, 0, 0, 0, 6>>>> :> <<170, 38, 132, 88, 24, 53, 231, 140, 177, 147, 117, 128, 175, 229, 141, 24, 22, 213, 86, 7>>
  @@ <<<<0>>, <<0, 0, 0, 0, 0, 0, 0, 7>>>> :> <<136, 74, 126, 20, 108, 54, 40, 70, 23, 8, 148, 145, 0, 19, 7, 88, 115, 204, 127, 130>>
  @@ <<<<0>>, <<0, 0, 0, 0, 0, 0, 0, 8>>>> :> <<230, 26, 22, 214, 159, 77, 75, 4, 239, 255, 76, 232, 24, 187, 189, 3, 163, 40, 193, 112>>
  @@ <<<<0>>, <<0, 0, 0, 0, 0, 0, 0, 9>>>> :> <<28, 104, 12, 10, 74, 137, 69, 179, 66, 157, 189, 22, 246, 121, 206, 194, 249, 255, 63, 119>>
  @@ <<<<0>>, <<0, 0, 0, 0, 0, 0, 0, 10>>>> :> <<70, 19, 54, 166, 186, 217, 161, 242, 135, 15, 107, 214, 30, 199, 133, 29, 204, 208, 12, 84>>
  @@ <<<<0>>, <<0, 0, 0, 0, 0, 0, 0, 11>>>> :> <<15, 79, 221, 136, 255, 116, 114, 177, 224, 214, 53, 145, 127, 118, 204, 173, 99, 148, 212, 167>>
  @@ <<<<0>>, <<0, 0, 0, 0, 0, 0, 0, 12>>>> :> <<5, 139, 76, 98, 202, 144, 15, 247, 162, 88, 48, 180, 205, 24, 11, 44, 113, 212, 54, 63>>
  @@ <<<<0>>, <<0, 0, 0, 0, 0, 0, 0, 13>>>> :> <<143, 74, 197, 218, 45, 17, 59, 83, 71, 187, 97, 153, 140, 241, 154, 105, 9, 97, 44, 30>>
  @@ <<<<0>>, <<0, 0, 0, 0, 0, 0, 0, 14>>>> :> <<153, 210, 23, 29, 171, 80, 147, 54, 184, 141, 158, 244, 245, 88, 13, 23, 41, 199, 56, 178>>
  @@ <<<<0>>, <<0, 0, 0, 0, 0, 0, 0, 15>>>> :> <<211, 73, 150, 166, 207, 190, 155, 3, 28, 53, 60, 242, 186, 205, 49, 38, 79, 221, 163, 108>>
  @@ <<<<0>>, <<0, 0, 0, 0, 0, 0, 0, 16>>>> :> <<203, 123, 65, 57, 22, 183, 217, 20, 153, 241, 1, 135, 153, 22, 181, 184, 209, 255, 78, 174>>
  @@ <<<<0>>, <<0, 0, 0, 0, 0, 0, 0, 17>>>> :> <<117, 81, 10, 137, 64, 34, 152, 80, 183, 140, 22, 211, 12, 147, 20, 233, 206, 83, 230, 143>>
  @@ <<<<0>>, <<0, 0, 0, 0, 0, 0, 0, 18>>>> :> <<207, 135, 36, 129, 157, 62, 70, 68, 108, 13, 114, 27, 222, 85, 240, 161, 64, 244, 152, 177>>
  @@ <<<<0>>, <<0, 0, 0, 0, 0, 0, 0, 19>>>> :> <<154, 148, 98, 80, 59, 103, 127, 41, 64, 89, 181, 146, 184, 178, 222, 176, 40, 129, 59, 22>>
  @@ <<<<0>>, <<0, 0, 0, 0, 0, 0, 0, 20>>>> :> <<92, 182, 147, 68, 99, 144, 68, 142, 71, 43, 100, 199, 137, 156, 177, 63, 138, 254, 36, 26>>
  @@ <<<<0>>, <<0, 0, 0, 0, 0, 0, 0, 21>>>> :> <<82, 203, 174, 180, 33, 144, 137, 108, 62, 137, 108, 113, 58, 133, 218, 31, 201, 56, 190, 44>>
  @@ <<<<0>>, <<0, 0, 0, 0, 0, 0, 0, 22>>>> :> <<50, 133, 72, 183, 119, 86, 145, 205, 13, 26, 13, 178, 63, 73, 237, 146, 59, 28, 42, 169>>
  @@ <<<<0>>, <<0, 0, 0, 0, 0, 0, 0, 23>>>> :> <<219, 33, 202, 196, 60, 17, 168, 190, 37, 162, 94, 75, 12, 101, 152, 190, 162, 175, 99, 222>>
  @@ <<<<0>>, <<0, 0, 0, 0, 0, 0, 0, 24>>>> :> <<73, 161, 229, 153, 250, 36, 139, 96, 191, 128, 199, 53, 183, 23, 50, 119, 35, 194, 45, 149>>
  @@ <<<<0>>, <<0, 0, 0, 0, 0, 6, 99, 28>>>> :> <<86, 182, 209, 224, 166, 6, 77, 110, 105, 201, 224, 249, 173, 76, 186, 174, 9, 63, 8, 118>>
  @@ <<<<0>>, <<0, 0, 0, 0, 0, 6, 99, 29>>>> :> <<119, 126, 43, 94, 12, 98, 174, 153, 117, 208, 24, 5, 112, 154, 34, 107, 200, 86, 97, 6>>
  @@ <<<<0>>, <<0, 0, 0, 0, 0, 6, 99, 30>>>> :> <<207, 12, 92, 38, 152, 12, 3, 6, 33, 51, 85, 141, 147, 124, 40, 40, 201, 99, 114, 156>>
  @@ <<<<0>>, <<0, 0, 0, 0, 0, 6, 99, 31>>>> :> <<252, 56, 113, 196, 230, 173, 126, 21, 106, 187, 206, 19, 139, 232, 130, 82, 171, 133, 108, 90>>
  @@ <<<<0>>, <<0, 0, 0, 0, 0, 6, 99, 32>>>> :> <<238, 225, 25, 47, 217, 55, 182, 181, 72, 153, 186, 165, 219, 16, 115, 235, 247, 182, 217, 213>>
  @@ <<<<0>>, <<0, 0, 0, 0, 0, 6, 99, 33>>>> :> <<132, 229, 64, 47, 166, 163, 233, 61, 244, 55, 38, 209, 154, 179, 121, 200, 0, 126, 228, 230>>
  @@ <<<<0>>, <<0, 0, 0, 0, 0, 6, 99, 34>>>> :> <<65, 149, 243, 166, 36, 121, 44, 203, 224, 14, 116, 2, 250, 246, 164, 96, 28, 128, 210, 161>>
  @@ <<<<0>>, <<0, 0, 0, 0, 0, 6, 99, 35>>>> :> <<39, 173, 218, 163, 7, 120, 78, 206, 239, 83, 236, 97, 234, 128, 230, 16, 94, 112, 171, 240>>
  @@ <<<<0>>, <<0, 0, 0, 0, 0, 6, 99, 36>>>> :> <<16, 188, 9, 199, 190, 157, 136, 81, 91, 149, 187, 105, 81, 234, 67, 149, 152, 201, 107, 27>>
  @@ <<<<0>>, <<255, 255, 255, 255, 255, 255, 255, 252>>>> :> <<114, 19, 30, 229, 46, 141, 244, 7, 220, 33, 155, 78, 160, 68, 208, 129, 151, 218, 226, 38>>
  @@ <<<<0>>, <<255, 255, 255, 255, 255, 255, 255, 253>>>> :> <<193, 93, 163, 29, 108, 249, 129, 149, 149, 68, 47, 143, 230, 188, 178, 13, 102, 134, 108, 60>>
  @@ <<<<0>>, <<255, 255, 255, 255, 255, 255, 255, 254>>>> :> <<255, 55, 193, 96, 247, 184, 92, 159, 164, 196, 67, 224, 227, 144, 241, 125, 164, 218, 21, 60>>
  @@ <<<<0>>, <<255, 255, 255, 255, 255, 255, 255, 255>>>> :> <<180, 33, 102, 83, 107, 175, 224, 223, 131, 107, 96, 153, 226, 80, 190, 100, 108, 47, 36, 115>>
  @@ <<<<1>>, <<0, 0, 0, 0, 0, 0, 0, 0>>>> :> <<147, 92, 66, 223, 11, 52, 81, 184, 45, 168, 194, 55, 79, 28, 249, 107, 119, 49, 91, 147>>
  @@ <<<<1>>, <<0, 0, 0, 0, 0, 0, 0, 1>>>> :> <<34, 112, 158, 94, 34, 200, 0, 8, 235, 11, 35, 183, 238, 145, 80, 182, 31, 119, 245, 222>>
  @@ <<<<1>>, <<0, 0, 0, 0, 0, 0, 0, 2>>>> :> <<1, 63, 2, 52, 94, 16, 72, 149, 113, 83, 107, 125, 94, 65, 87, 153, 59, 182, 126, 25>>
  @@ <<<<1>>, <<0, 0, 0, 0, 0, 0, 0, 3>>>> :> <<14, 230, 47, 96, 56, 238, 26, 225, 89, 61, 129, 162, 246, 66, 117, 105, 134, 115, 47, 62>>
  @@ <<<<1>>, <<0, 0, 0, 0, 0, 0, 0, 4>>>> :> <<179, 94, 95, 21, 233, 159, 233, 81, 136, 115, 185, 9, 26, 39, 208, 153, 63, 189, 124, 252>>
  @@ <<<<1>>, <<0, 0, 0, 0, 0, 0, 0, 5>>>> :> <<19, 69, 77, 110, 33, 235, 186, 71, 197, 7, 9, 41, 28, 34, 191, 213, 59, 165, 74, 149>>
  @@ <<<<1>>, <<0, 0, 0, 0, 0, 0, 0, 6>>>> :> <<145, 3, 58, 30, 53, 138, 36, 184, 191, 45, 242, 90, 63, 78, 145, 97, 69, 198, 102, 204>>
  @@ <<<<1>>, <<0, 0, 0, 0, 0, 0, 0, 7>>>> :> <<146, 178, 137, 201, 78, 48, 238, 154, 74, 202, 137, 145, 185, 44, 8, 203, 96, 225, 248, 201>>
  @@ <<<<1>>, <<0, 0, 0, 0, 0, 0, 0, 8>>>> :> <<73, 48, 255, 136, 155, 10, 218, 255, 35, 48, 19, 118, 98, 30, 210, 56, 125, 27, 25, 0>>
  @@ <<<<1>>, <<0, 0, 0, 0, 0, 0, 0, 9>>>> :> <<53, 176, 223, 190, 70, 68, 46, 13, 187, 151, 9, 154, 164, 175, 79, 122, 89, 152, 71, 54>>
  @@ <<<<1>>, <<0, 0, 0, 0, 0, 0, 0, 10>>>> :> <<23, 110, 79, 21, 80, 166, 26, 9, 8, 63, 167, 231, 145, 192, 100, 75, 105, 30, 133, 34>>
  @@ <<<<1>>, <<0, 0, 0, 0, 0, 0, 0, 11>>>> :> <<155, 95, 55, 82, 77, 37, 57, 58, 186, 93, 194, 254, 76, 134, 222, 2, 241, 127, 95, 91>>
  @@ <<<<1>>, <<0, 0, 0, 0, 0, 0, 0, 12>>>> :> <<169, 228, 241, 223, 70, 51, 28, 214, 253, 18, 112, 89, 255, 219, 176, 64, 171, 67, 198, 165>>
  @@ <<<<1>>, <<0, 0, 0, 0, 0, 0, 0, 13>>>> :> <<162, 226, 157, 119, 98, 125, 54, 188, 118, 253, 228, 59, 110, 171, 43, 72, 173, 232, 214, 190>>
  @@ <<<<1>>, <<0, 0, 0, 0, 0, 0, 0, 14>>>> :> <<24, 229, 183, 106, 142, 151, 220, 246, 218, 18, 93, 246, 159, 174, 175, 231, 231, 22, 141, 124>>
  @@ <<<<1>>, <<0, 0, 0, 0, 0, 0, 0, 15>>>> :> <<43, 32, 137, 74, 192, 80, 61, 205, 64, 115, 22, 168, 141, 211, 210, 181, 195, 44, 95, 164>>
  @@ <<<<1>>, <<0, 0, 0, 0, 0, 0, 0, 16>>>> :> <<53, 149, 184, 39, 218, 101, 52, 243, 81, 67, 165, 121, 111, 100, 170, 14, 159, 99, 206, 244>>
  @@ <<<<1>>, <<0, 0, 0, 0, 0, 0, 0, 17>>>> :> <<142, 7, 166, 225, 123, 88, 215, 17, 80, 198, 84, 187, 222, 11, 210, 67, 192, 221, 93, 120>>
  @@ <<<<1>>, <<0, 0, 0, 0, 0, 0, 0, 18>>>> :> <<234, 124, 1, 255, 3, 67, 166, 113, 3, 149, 192, 1, 3, 41, 6, 209, 191, 148, 84, 146>>
  @@ <<<<1>>, <<0, 0, 0, 0, 0, 0, 0, 19>>>> :> <<222, 234, 158, 81, 5, 245, 162, 146, 194, 42, 130, 235, 32, 126, 215, 142, 145, 175, 134, 226>>
  @@ <<<<1>>, <<0, 0, 0, 0, 0, 0, 0, 20>>>> :> <<19, 243, 250, 33, 33, 149, 179, 119, 44, 77, 167, 69, 105, 214, 164, 15, 73, 250, 179, 92>>
  @@ <<<<1>>, <<0, 0, 0, 0, 0, 0, 0, 21>>>> :> <<3, 58, 28, 227, 24, 79, 131, 86, 66, 180, 110, 148, 138, 161, 235, 133, 5, 121, 35, 208>>
  @@ <<<<1>>, <<0, 0, 0, 0, 0, 0, 0, 22>>>> :> <<199, 94, 240, 108, 73, 107, 154, 31, 36, 43, 70, 21, 164, 254, 119, 226, 50, 137, 237, 62>>
  @@ <<<<1>>, <<0, 0, 0, 0, 0, 0, 0, 23>>>> :> <<219, 216, 4, 10, 199, 26, 110, 108, 124, 140, 94, 57, 103, 137, 97, 94, 46, 135, 225, 152>>
  @@ <<<<1>>, <<0, 0, 0, 0, 0, 0, 0, 24>>>> :> <<122, 32, 248, 109, 233, 65, 38, 81, 60, 202, 110, 242, 45, 26, 9, 35, 133, 131, 240, 189>>
  @@ <<<<1>>, <<0, 0, 0, 0, 0, 6, 99, 28>>>> :> <<129, 30, 69, 14, 23, 204, 137, 68, 17, 67, 69, 79, 130, 70, 25, 11, 123, 4, 137, 168>>
  @@ <<<<1>>, <<0, 0, 0, 0, 0, 6, 99, 29>>>> :> <<49, 240, 65, 5, 74, 237, 197, 229, 225, 222, 103, 122, 2, 138, 131, 172, 130, 134, 77, 35>>
  @@ <<<<1>>, <<0, 0, 0, 0, 0, 6, 99, 30>>>> :> <<81, 214, 218, 89, 91, 202, 172, 80, 214, 13, 233, 230, 50, 82, 46, 108, 108, 163, 94, 202>>
  @@ <<<<1>>, <<0, 0, 0, 0, 0, 6, 99, 31>>>> :> <<186, 166, 104, 160, 244, 30, 198, 4, 193, 120, 237, 47, 79, 206, 66, 141, 228, 74, 52, 30>>
  @@ <<<<1>>, <<0, 0, 0, 0, 0, 6, 99, 32>>>> :> <<183, 134, 13, 141, 4, 18, 96, 56, 91, 155, 235, 105, 60, 162, 80, 208, 112, 81, 171, 175>>
  @@ <<<<1>>, <<0, 0, 0, 0, 0, 6, 99, 33>>>> :> <<146, 87, 227, 57, 59, 4, 208, 192, 158, 109, 243, 212, 67, 105, 112, 162, 68, 41, 22, 128>>
  @@ <<<<1>>, <<0, 0, 0, 0, 0, 6, 99, 34>>>> :> <<95, 165, 125, 185, 212, 171, 154, 109, 248, 29, 184, 103, 74, 183, 103, 214, 46, 242, 130, 60>>
  @@ <<<<1>>, <<0, 0, 0, 0, 0, 6, 99, 35>>>> :> <<105, 27, 201, 35, 104, 227, 64, 174, 250, 94, 70, 116, 40, 117, 15, 28, 94, 77, 91, 166>>
  @@ <<<<1>>, <<0, 0, 0, 0, 0, 6, 99, 36>>>> :> <<35, 179, 28, 197, 125, 60, 195, 4, 180, 168, 2, 39, 147, 110, 248, 153, 111, 30, 248, 111>>
  @@ <<<<1>>, <<255, 255, 255, 255, 255, 255, 255, 252>>>> :> <<172, 185, 219, 143, 193, 90, 237, 157, 58, 30, 220, 3, 164, 168, 20, 131, 187, 140, 44, 138>>
  @@ <<<<1>>, <<255, 255, 255, 255, 255, 255, 255, 253>>>> :> <<202, 251, 75, 95, 169, 204, 251, 127, 254, 188, 222, 209, 35, 15, 232, 185, 180, 42, 208, 23>>
  @@ <<<<1>>, <<255, 255, 255, 255, 255, 255, 255, 254>>>> :> <<75, 219, 148, 80, 98, 96, 245, 202, 253, 140, 47, 77, 6, 82, 12, 9, 8, 68, 121, 79>>
  @@ <<<<1>>, <<255, 255, 255, 255, 255, 255, 255, 255>>>> :> <<53, 99, 69, 68, 10, 125, 24, 76, 125, 250, 209, 74, 2, 122, 116, 174, 72, 178, 30, 12>>
  @@ <<<<49, 50, 51, 52, 53, 54, 55, 56, 57, 48, 49, 50, 51, 52, 53, 54, 55, 56, 57, 48>>, <<0, 0, 0, 0, 0, 0, 0, 0>>>> :> <<204, 147, 207, 24, 80, 141, 148, 147, 76, 100, 182, 93, 139, 167, 102, 127, 183, 205, 228, 176>>
  @@ <<<<49, 50, 51, 52, 53, 54, 55, 56, 57, 48, 49, 50, 51, 52, 53, 54, 55, 56, 57, 48>>, <<0, 0, 0, 0, 0, 0, 0, 1>>>> :> <<117, 164, 138, 25, 212, 203, 225, 0, 100, 78, 138, 193, 57, 126, 234, 116, 122, 45, 51, 171>>
  @@ <<<<49, 50, 51, 52, 53, 54, 55, 56, 57, 48, 49, 50, 51, 52, 53, 54, 55, 56, 57, 48>>, <<0, 0, 0, 0, 0, 0, 0, 2>>>> :> <<11, 172, 183, 250, 8, 47, 239, 48, 120, 34, 17, 147, 139, 193, 197, 231, 4, 22, 255, 68>>
  @@ <<<<49, 50, 51, 52, 53, 54, 55, 56, 57, 48, 49, 50, 51, 52, 53, 54, 55, 56, 57, 48>>, <<0, 0, 0, 0, 0, 0, 0, 3>>>> :> <<102, 194, 130, 39, 208, 58, 45, 85, 41, 38, 47, 240, 22, 161, 230, 239, 118, 85, 126, 206>>
  @@ <<<<49, 50, 51, 52, 53, 54, 55, 56, 57, 48, 49, 50, 51, 52, 53, 54, 55, 56, 57, 48>>, <<0, 0, 0, 0, 0, 0, 0, 4>>>> :> <<169, 4, 201, 0, 166, 75, 53, 144, 152, 116, 179, 62, 97, 197, 147, 138, 142, 21, 237, 28>>
  @@ <<<<49, 50, 51, 52, 53, 54, 55, 56, 57, 48, 49, 50, 51, 52, 53, 54, 55, 56, 57, 48>>, <<0, 0, 0, 0, 0, 0, 0, 5>>>> :> <<163, 126, 120, 61, 123, 114, 51, 192, 131, 212, 246, 41, 38, 199, 162, 95, 35, 141, 3, 22>>
  @@ <<<<49, 50, 51, 52, 53, 54, 55, 56, 57, 48, 49, 50, 51, 52, 53, 54, 55, 56, 57, 48>>, <<0, 0, 0, 0, 0, 0, 0, 6>>>> :> <<188, 156, 210, 133, 97, 4, 44, 131, 242, 25, 50, 77, 60, 96, 114, 86, 192, 50, 114, 174>>
  @@ <<<<49, 50, 51, 52, 53, 54, 55, 56, 57, 48, 49, 50, 51, 52, 53, 54, 55, 56, 57, 48>>, <<0, 0, 0, 0, 0, 0, 0, 7>>>> :> <<164, 251, 150, 12, 11, 192, 110, 30, 171, 184, 4, 229, 179, 151, 205, 196, 180, 85, 150, 250>>
  @@ <<<<49, 50, 51, 52, 53, 54, 55, 56, 57, 48, 49, 50, 51, 52, 53, 54, 55, 56, 57, 48>>, <<0, 0, 0, 0, 0, 0, 0, 8>>>> :> <<27, 60, 137, 246, 94, 108, 158, 136, 48, 18, 5, 40, 35, 68, 63, 4, 139, 67, 50, 219>>
  @@ <<<<49, 50, 51, 52, 53, 54, 55, 56, 57, 48, 49, 50, 51, 52, 53, 54, 55, 56, 57, 48>>, <<0, 0, 0, 0, 0, 0, 0, 9>>>> :> <<22, 55, 64, 152, 9, 166, 121, 220, 105, 130, 7, 49, 12, 140, 127, 192, 114, 144, 217, 229>>
  @@ <<<<49, 50, 51, 52, 53, 54, 55, 56, 57, 48, 49, 50, 51, 52, 53, 54, 55, 56, 57, 48>>, <<0, 0, 0, 0, 0, 0, 0, 10>>>> :> <<155, 157, 213, 239, 154, 154, 210, 93, 215, 59, 249, 172, 206, 166, 111, 137, 161, 37, 232, 115>>
  @@ <<<<49, 50, 51, 52, 53, 54, 55, 56, 57, 48, 49, 50, 51, 52, 53, 54, 55, 56, 57, 48>>, <<0, 0, 0, 0, 0, 0, 0, 11>>>> :> <<202, 30, 4, 2, 193, 158, 219, 104, 37, 51, 158, 160, 20, 63, 11, 238, 84, 252, 13, 192>>
  @@ <<<<49, 50, 51, 52, 53, 54, 55, 56, 57, 48, 49, 50, 51, 52, 53, 54, 55, 56, 57, 48>>, <<0, 0, 0, 0, 0, 0, 0, 12>>>> :> <<26, 218, 244, 176, 191, 64, 70, 208, 86, 216, 240, 14, 74, 106, 150, 163, 107, 201, 152, 7>>
  @@ <<<<49, 50, 51, 52, 53, 54, 55, 56, 57, 48, 49, 50, 51, 52, 53, 54, 55, 56, 57, 48>>, <<0, 0, 0, 0, 0, 0, 0, 13>>>> :> <<63, 186, 127, 138, 36, 141, 135, 248, 166, 191, 7, 154, 68, 49, 53, 228, 144, 162, 187, 198>>
  @@ <<<<49, 50, 51, 52, 53, 54, 55, 56, 57, 48, 49, 50, 51, 52, 53, 54, 55, 56, 57, 48>>, <<0, 0, 0, 0, 0, 0, 0, 14>>>> :> <<5, 109, 16, 220, 44, 5, 32, 0, 204, 79, 149, 253, 207, 217, 34, 4, 51, 114, 190, 153>>
  @@ <<<<49, 50, 51, 52, 53, 54, 55, 56, 57, 48, 49, 50, 51, 52, 53, 54, 55, 56, 57, 48>>, <<0, 0, 0, 0, 0, 0, 0, 15>>>> :> <<116, 158, 63, 136, 45, 78, 218, 205, 203, 233, 159, 184, 173, 41, 132, 146, 141, 136, 251, 166>>
  @@ <<<<49, 50, 51, 52, 53, 54, 55, 56, 57, 48, 49, 50, 51, 52, 53, 54, 55, 56, 57, 48>>, <<0, 0, 0, 0, 0, 0, 0, 16>>>> :> <<42, 221, 131, 116, 38, 38, 71, 219, 194, 108, 220, 208, 96, 176, 154, 85, 189, 249, 28, 188>>
  @@ <<<<49, 50, 51, 52, 53, 54, 55, 56, 57, 48, 49, 50, 51, 52, 53, 54, 55, 56, 57, 48>>, <<0, 0, 0, 0, 0, 0, 0, 17>>>> :> <<51, 35, 26, 127, 40, 233, 200, 195, 117, 93, 149, 190, 53, 80, 47, 229, 64, 86, 92, 92>>
  @@ <<<<49, 50, 51, 52, 53, 54, 55, 56, 57, 48, 49, 50, 51, 52, 53, 54, 55, 56, 57, 48>>, <<0, 0, 0, 0, 0, 0, 0, 18>>>> :> <<221, 77, 145, 96, 150, 210, 97, 251, 126, 188, 203, 79, 92, 25, 188, 187, 75, 98, 174, 151>>
  @@ <<<<49, 50, 51, 52, 53, 54, 55, 56, 57, 48, 49, 50, 51, 52, 53, 54, 55, 56, 57, 48>>, <<0, 0, 0, 0, 0, 0, 0, 19>>>> :> <<200, 61, 170, 122, 248, 192, 13, 53, 4, 97, 236, 234, 242, 75, 156, 9, 18, 190, 149, 70>>
  @@ <<<<49, 50, 51, 52, 53, 54, 55, 56, 57, 48, 49, 50, 51, 52, 53, 54, 55, 56, 57, 48>>, <<0, 0, 0, 0, 0, 0, 0, 20>>>> :> <<136, 201, 237, 232, 89, 153, 225, 184, 15, 153, 111, 14, 18, 20, 207, 78, 204, 84, 23, 81>>
  @@ <<<<49, 50, 51, 52, 53, 54, 55, 56, 57, 48, 49, 50, 51, 52, 53, 54, 55, 56, 57, 48>>, <<0, 0, 0, 0, 0, 0, 0, 21>>>> :> <<103, 26, 141, 3, 17, 89, 71, 76, 135, 219, 135, 247, 125, 122, 172, 211, 79, 92, 186, 44>>
  @@ <<<<49, 50, 51, 52, 53, 54, 55, 56, 57, 48, 49, 50, 51, 52, 53, 54, 55, 56, 57, 48>>, <<0, 0, 0, 0, 0, 0, 0, 22>>>> :> <<5, 126, 214, 123, 231, 105, 141, 144, 41, 250, 103, 247, 41, 34, 32, 129, 198, 53, 42, 43>>
  @@ <<<<49, 50, 51, 52, 53, 54, 55, 56, 57, 48, 49, 50, 51, 52, 53, 54, 55, 56, 57, 48>>, <<0, 0, 0, 0, 0, 0, 0, 23>>>> :> <<223, 149, 202, 139, 166, 98, 174, 16, 33, 130, 165, 132, 244, 76, 101, 130, 41, 121, 165, 133>>
  @@ <<<<49, 50, 51, 52, 53, 54, 55, 56, 57, 48, 49, 50, 51, 52, 53, 54, 55, 56, 57, 48>>, <<0, 0, 0, 0, 0, 0, 0, 24>>>> :> <<74, 118, 35, 34, 180, 206, 82, 78, 246, 207, 212, 246, 204, 122, 8, 234, 66, 102, 241, 135>>
  @@ <<<<49, 50, 51, 52, 53, 54, 55, 56, 57, 48, 49, 50, 51, 52, 53, 54, 55, 56, 57, 48>>, <<0, 0, 0, 0, 0, 6, 99, 28>>>> :> <<227, 105, 163, 80, 120, 196, 196, 227, 142, 11, 247, 163, 250, 143, 255, 218, 74, 138, 251, 26>>
  @@ <<<<49, 50, 51, 52, 53, 54, 55, 56, 57, 48, 49, 50, 51, 52, 53, 54, 55, 56, 57, 48>>, <<0, 0, 0, 0, 0, 6, 99, 29>>>> :> <<249, 191, 113, 175, 235, 46, 232, 7, 195, 193, 150, 106, 218, 162, 248, 169, 130, 243, 207, 36>>
  @@ <<<<49, 50, 51, 52, 53, 54, 55, 56, 57, 48, 49, 50, 51, 52, 53, 54, 55, 56, 57, 48>>, <<0, 0, 0, 0, 0, 6, 99, 30>>>> :> <<116, 236, 206, 243, 122, 75, 97, 170, 183, 53, 175, 183, 211, 127, 190, 149, 166, 183, 218, 241>>
  @@ <<<<49, 50, 51, 52, 53, 54, 55, 56, 57, 48, 49, 50, 51, 52, 53, 54, 55, 56, 57, 48>>, <<0, 0, 0, 0, 0, 6, 99, 31>>>> :> <<44, 208, 50, 205, 200, 40, 224, 144, 44, 196, 210, 200, 151, 186, 223, 149, 106, 147, 68, 53>>
  @@ <<<<49, 50, 51, 52, 53, 54, 55, 56, 57, 48, 49, 50, 51, 52, 53, 54, 55, 56, 57, 48>>, <<0, 0, 0, 0, 0, 6, 99, 32>>>> :> <<5, 11, 233, 206, 224, 250, 147, 0, 58, 225, 196, 251, 244, 147, 128, 95, 180, 249, 24, 119>>
  @@ <<<<49, 50, 51, 52, 53, 54, 55, 56, 57, 48, 49, 50, 51, 52, 53, 54, 55, 56, 57, 48>>, <<0, 0, 0, 0, 0, 6, 99, 33>>>> :> <<103, 156, 125, 165, 31, 131, 211, 225, 233, 97, 34, 234, 121, 17, 13, 69, 19, 190, 73, 13>>
  @@ <<<<49, 50, 51, 52, 53, 54, 55, 56, 57, 48, 49, 50, 51, 52, 53, 54, 55, 56, 57, 48>>, <<0, 0, 0, 0, 0, 6, 99, 34>>>> :> <<188, 136, 115, 0, 175, 166, 173, 136, 149, 60, 124, 205, 177, 69, 44, 229, 180, 9, 201, 248>>
  @@ <<<<49, 50, 51, 52, 53, 54, 55, 56, 57, 48, 49, 50, 51, 52, 53, 54, 55, 56, 57, 48>>, <<0, 0, 0, 0, 0, 6, 99, 35>>>> :> <<249, 28, 76, 34, 243, 177, 69, 223, 101, 16, 222, 56, 68, 175, 160, 36, 129, 223, 251, 234>>
  @@ <<<<49, 50, 51, 52, 53, 54, 55, 56, 57, 48, 49, 50, 51, 52, 53, 54, 55, 56, 57, 48>>, <<0, 0, 0, 0, 0, 6, 99, 36>>>> :> <<112, 95, 109, 115, 118, 32, 193, 18, 13, 93, 244, 32, 185, 157, 84, 15, 204, 161, 95, 241>>
  @@ <<<<49, 50, 51, 52, 53, 54, 55, 56, 57, 48, 49, 50, 51, 52, 53, 54, 55, 56, 57, 48>>, <<255, 255, 255, 255, 255, 255, 255, 252>>>> :> <<207, 131, 245, 209, 150, 38, 37, 232, 217, 121, 247, 56, 40, 28, 150, 242, 28, 131, 27, 155>>
  @@ <<<<49, 50, 51, 52, 53, 54, 55, 56, 57, 48, 49, 50, 51, 52, 53, 54, 55, 56, 57, 48>>, <<255, 255, 255, 255, 255, 255, 255, 253>>>> :> <<43, 93, 252, 216, 60, 168, 159, 148, 61, 189, 144, 157, 240, 54, 105, 38, 167, 19, 86, 17>>
  @@ <<<<49, 50, 51, 52, 53, 54, 55, 56, 57, 48, 49, 50, 51, 52, 53, 54, 55, 56, 57, 48>>, <<255, 255, 255, 255, 255, 255, 255, 254>>>> :> <<53, 17, 69, 204, 220, 7, 76, 170, 127, 238, 197, 215, 62, 145, 231, 251, 173, 251, 50, 179>>
  @@ <<<<49, 50, 51, 52, 53, 54, 55, 56, 57, 48, 49, 50, 51, 52, 53, 54, 55, 56, 57, 48>>, <<255, 255, 255, 255, 255, 255, 255, 255>>>> :> <<246, 22, 253, 102, 183, 240, 98, 144, 104, 107, 99, 32, 206, 179, 77, 101, 177, 254, 147, 234>>

gc_hmac_sha1(secret, counter) ==
  IF <<secret, counter>> \in DOMAIN HmacTable THEN HmacTable[<<secret, counter>>]
  ELSE hmac_sha1(secret, counter)

\* counter[i] = (moving_factor >> ((8 - i - 1) * 8)) & 0xFF, i = 0..7
CounterBytes(mf) ==
  <<mf[1] \div 256, mf[1] % 256, mf[2] \div 256, mf[2] % 256,
    mf[3] \div 256, mf[3] % 256, mf[4] \div 256, mf[4] % 256>>

\* The dynamic truncation of a digest hs (hs[1] is byte 0).
\* An offset taken from the high half of the last byte.
TruncOffsetHigh(hs) == hs[20] \div 16

TruncOffset(hs) == hs[20] % 16

TruncAt(hs, offset) ==
  (hs[offset + 1] % 128) * 16777216 + hs[offset + 2] * 65536
  + hs[offset + 3] * 256 + hs[offset + 4]

TruncValue(hs) == TruncAt(hs, TruncOffset(hs))

Pow10(digits) ==
  CASE digits = 6 -> 1000000 [] digits = 7 -> 10000000 [] digits = 8 -> 100000000

\* oath_hotp_generate, from the digest on.
Printed(digits, out) ==
  IF Len(out) # digits THEN [rc |-> "OATH_PRINTF_ERROR", otp |-> <<>>]
  ELSE [rc |-> "OATH_OK", otp |-> out]

GenerateFromDigest(hs, digits) ==
  IF digits \notin {6, 7, 8} THEN [rc |-> "OATH_INVALID_DIGITS", otp |-> <<>>]
  ELSE Printed(digits, FmtPrecLd(digits, TruncValue(hs) % Pow10(digits)))

\* rc = gc_hmac_sha1 (...); if (rc != GC_OK) return OATH_CRYPTO_ERROR;
HmacDone(gcrc, hs, digits) ==
  IF gcrc # "GC_OK" THEN [rc |-> "OATH_CRYPTO_ERROR", otp |-> <<>>]
  ELSE GenerateFromDigest(hs, digits)

\* oath_hotp_generate when gc_hmac_sha1 returns gcrc.
GenerateGc(gcrc, secret, moving_factor, digits) ==
  HmacDone(gcrc, gc_hmac_sha1(secret, CounterBytes(moving_factor)), digits)

oath_hotp_generate(secret, moving_factor, digits) ==
  GenerateGc("GC_OK", secret, moving_factor, digits)

\* strcmp, as far as its callers look: 0 exactly for equal strings.
strcmp(a, b) == IF a = b THEN 0 ELSE 1

\* A comparison that accepts every candidate.
AcceptAny(handle, test_otp) == 0

strcmp_callback(handle, test_otp) == strcmp(handle, test_otp)

\* oath_hotp_validate_callback: the do-while loop from iteration iter on.
\* gcfail is the set of iterations at which gc_hmac_sha1 fails, tried the
\* counters oath_hotp_generate was called with so far.  The result is a
\* position (err = "") or an error code (err # ""), with the counters tried.
RECURSIVE ValidateLoop(_, _, _, _, _, _, _, _)
\* ValidateIter with a loop that goes on while window - iter >= 0.
ValidateIterOneMore(secret, start_moving_factor, window, digits, handle, iter, gcfail, tried, g) ==
  IF g.rc # "OATH_OK" THEN [err |-> g.rc, pos |-> 0, tried |-> tried]
  ELSE IF strcmp_callback(handle, g.otp) = 0
       THEN [err |-> "", pos |-> iter, tried |-> tried]
  ELSE IF window - iter >= 0
       THEN ValidateLoop(secret, start_moving_factor, window, digits, handle,
                         iter + 1, gcfail, tried)
  ELSE [err |-> "OATH_INVALID_OTP", pos |-> 0, tried |-> tried]

ValidateIter(secret, start_moving_factor, window, digits, handle, iter, gcfail, tried, g) ==
  IF g.rc # "OATH_OK" THEN [err |-> g.rc, pos |-> 0, tried |-> tried]
  ELSE IF strcmp_callback(handle, g.otp) = 0
       THEN [err |-> "", pos |-> iter, tried |-> tried]
  ELSE IF window - iter > 0
       THEN ValidateLoop(secret, start_moving_factor, window, digits, handle,
                         iter + 1, gcfail, tried)
  ELSE [err |-> "OATH_INVALID_OTP", pos |-> 0, tried |-> tried]

ValidateTry(secret, start_moving_factor, window, digits, handle, iter, gcfail, tried, counter) ==
  ValidateIter(secret, start_moving_factor, window, digits, handle, iter, gcfail,
               Append(tried, counter),
               GenerateGc(IF iter \in gcfail THEN "GC_INVALID_HASH" ELSE "GC_OK",
                          secret, counter, digits))

ValidateLoop(secret, start_moving_factor, window, digits, handle, iter, gcfail, tried) ==
  ValidateTry(secret, start_moving_factor, window, digits, handle, iter, gcfail,
              tried, Add64(start_moving_factor, iter))

\* oath_hotp_validate_callback when gc_hmac_sha1 fails at the iterations gcfail.
ValidateGc(gcfail, secret, start_moving_factor, window, digits, handle) ==
  ValidateLoop(secret, start_moving_factor, window, digits, handle, 0, gcfail, <<>>)

oath_hotp_validate_callback(secret, start_moving_factor, window, digits, handle) ==
  ValidateGc({}, secret, start_moving_factor, window, digits, handle)

\* oath_hotp_validate: the digit count is strlen (otp).  usersfile.c calls
\* it under its libhotp name hotp_validate_otp.
oath_hotp_validate(secret, start_moving_factor, window, otp) ==
  oath_hotp_validate_callback(secret, start_moving_factor, window, Len(otp), otp)

(***************************************************************************)
(* src/libhotp/usersfile.c: parsing                                        *)
(***************************************************************************)
T_HOTP   == <<"H", "O", "T", "P">>
T_HOTPE  == T_HOTP \o <<"/", "E">>
T_HOTPE6 == T_HOTPE \o <<"/", "6">>
T_HOTPE7 == T_HOTPE \o <<"/", "7">>
T_HOTPE8 == T_HOTPE \o <<"/", "8">>
T_DASH   == <<"-">>

parse_type(str) ==
  IF strcmp(str, T_HOTPE6) = 0 THEN 6
  ELSE IF strcmp(str, T_HOTPE7) = 0 THEN 7
  ELSE IF strcmp(str, T_HOTPE8) = 0 THEN 8
  ELSE IF strcmp(str, T_HOTPE) = 0 THEN 6
  ELSE IF strcmp(str, T_HOTP) = 0 THEN 6
  ELSE 0

HexDigits == DecDigits \cup {"a", "b", "c", "d", "e", "f", "A", "B", "C", "D", "E", "F"}

HexVal(c) ==
  IF c \in DecDigits THEN DigitVal(c)
  ELSE CASE c \in {"a", "A"} -> 10 [] c \in {"b", "B"} -> 11
         [] c \in {"c", "C"} -> 12 [] c \in {"d", "D"} -> 13
         [] c \in {"e", "E"} -> 14 [] c \in {"f", "F"} -> 15

RECURSIVE HexBytes(_)
HexBytes(hex) ==
  IF Len(hex) < 2 THEN <<>>
  ELSE <<HexVal(hex[1]) * 16 + HexVal(hex[2])>> \o HexBytes(SubSeq(hex, 3, Len(hex)))

\* hotp_hex2bin (p, secret, &secret_length) with a buffer of binlen bytes: the
\* external hex decoder.
hotp_hex2bin(hex, binlen) ==
  IF (\E i \in 1..Len(hex) : hex[i] \notin HexDigits) \/ Len(hex) % 2 # 0
  THEN [rc |-> "HOTP_INVALID_HEX", bin |-> <<>>]
  ELSE IF Len(hex) \div 2 > binlen
  THEN [rc |-> "HOTP_TOO_SMALL_BUFFER", bin |-> <<>>]
  ELSE [rc |-> "HOTP_OK", bin |-> HexBytes(hex)]

\* The digits of a number of strptime, at most maxd of them, from index i
\* of s on.
RECURSIVE GetDigits(_, _, _, _)
GetDigits(s, i, maxd, acc) ==
  IF maxd = 0 \/ i > Len(s) \/ s[i] \notin DecDigits THEN [val |-> acc, next |-> i]
  ELSE GetDigits(s, i + 1, maxd - 1, acc * 10 + DigitVal(s[i]))

\* strptime's conversion of a number of at most maxd digits, read from
\* index i of s: white space is skipped, then the digits are read; next = i
\* says that no digit follows the white space.  (The C library also stops
\* reading once another digit would take the value past the greatest one
\* of the field; the digit left over then fails to match the literal that
\* follows the field, where here the value read is out of range.)
GetNumber(s, i, maxd, acc) ==
  IF GetDigits(s, SkipSpace(s, i), maxd, acc).next = SkipSpace(s, i)
  THEN [val |-> acc, next |-> i]
  ELSE GetDigits(s, SkipSpace(s, i), maxd, acc)

\* time_format_string = "%Y-%m-%dT%H:%M:%SL": a conversion is <<maximal
\* number of digits, least value, greatest value>>, a literal is <<c>>.
time_format_string ==
  << <<4, 0, 9999>>, <<"-">>, <<2, 1, 12>>, <<"-">>, <<2, 1, 31>>, <<"T">>,
     <<2, 0, 23>>, <<":">>, <<2, 0, 59>>, <<":">>, <<2, 0, 61>>, <<"L">> >>

\* strptime from index i of p on, with the fields read so far in tm.
RECURSIVE StrpFrom(_, _, _, _)
StrpNumber(p, fmt, tm, item, r, i) ==
  IF r.next = i \/ r.val < item[2] \/ r.val > item[3] THEN [ok |-> FALSE, tm |-> tm]
  ELSE StrpFrom(p, r.next, Tail(fmt), Append(tm, r.val))

StrpItem(p, i, fmt, tm, item) ==
  IF Len(item) = 1
  THEN IF i <= Len(p) /\ p[i] = item[1] THEN StrpFrom(p, i + 1, Tail(fmt), tm)
       ELSE [ok |-> FALSE, tm |-> tm]
  ELSE StrpNumber(p, fmt, tm, item, GetNumber(p, i, item[1], 0), i)

StrpFrom(p, i, fmt, tm) ==
  IF fmt = <<>> THEN [ok |-> i = Len(p) + 1, tm |-> tm]
  ELSE StrpItem(p, i, fmt, tm, Head(fmt))

\* strptime (p, time_format_string, &tm): ok says that the conversion
\* succeeded and consumed all of p (t != NULL && *t == '\0').
strptime(p) == StrpFrom(p, 1, time_format_string, <<>>)

\* mktime (&tm) == (time_t) -1, in a process whose local time is UTC: the
\* second before the epoch.  parse_usersfile calls mktime only when the
\* caller passed a last_otp to store the time in.
MktimeIsMinusOne(tm) == tm = <<1969, 12, 31, 23, 59, 59>>

\* What parse_usersfile's loop body reports for a line: rc = "continue"
\* stands for the loop's continue statements; start is the moving factor
\* read, pos what hotp_validate_otp returned, validated whether it was
\* called, tm the parsed time of the last OTP.
Parsed(rc, start, pos, validated, tm) ==
  [rc |-> rc, mf |-> Add64(start, pos), start |-> start, pos |-> pos,
   validated |-> validated, tm |-> tm]

Skip(rc) == Parsed(rc, U64(0), 0, FALSE, <<>>)

\* rc = hotp_validate_otp (...); if (rc < 0) return rc;
\* *new_moving_factor = start_moving_factor + rc; return HOTP_OK;
ParseValidated(start_moving_factor, tm, v) ==
  IF v.err # "" THEN Parsed(v.err, start_moving_factor, 0, TRUE, tm)
  ELSE Parsed("HOTP_OK", start_moving_factor, v.pos, TRUE, tm)

\* ParseLast without the comparison of the last OTP with the presented one.
ParseLastNoReplay(toks, otp, window, last_otp, secret, start_moving_factor, tp) ==
  IF Len(toks) >= 7 /\ ~tp.ok THEN Skip("HOTP_INVALID_TIMESTAMP")
  ELSE IF Len(toks) >= 7 /\ last_otp /\ MktimeIsMinusOne(tp.tm)
       THEN Skip("HOTP_INVALID_TIMESTAMP")
  ELSE ParseValidated(start_moving_factor, tp.tm,
                      oath_hotp_validate(secret, start_moving_factor, window, otp))

\* The last OTP, its time, the replay test and the validation.
ParseLast(toks, otp, window, last_otp, secret, start_moving_factor, tp) ==
  IF Len(toks) >= 7 /\ ~tp.ok THEN Skip("HOTP_INVALID_TIMESTAMP")
  ELSE IF Len(toks) >= 7 /\ last_otp /\ MktimeIsMinusOne(tp.tm)
       THEN Skip("HOTP_INVALID_TIMESTAMP")
  ELSE IF Len(toks) >= 6 /\ strcmp(toks[6], otp) = 0
       THEN Parsed("HOTP_REPLAYED_OTP", start_moving_factor, 0, FALSE, tp.tm)
  ELSE ParseValidated(start_moving_factor, tp.tm,
                      oath_hotp_validate(secret, start_moving_factor, window, otp))

\* The (optional) moving factor.
ParseCounter(toks, otp, window, last_otp, secret, ull) ==
  IF Len(toks) >= 5 /\ ull.end # Len(toks[5]) + 1 THEN Skip("HOTP_INVALID_COUNTER")
  ELSE ParseLast(toks, otp, window, last_otp, secret, ull.val,
                 IF Len(toks) >= 7 THEN strptime(toks[7])
                 ELSE [ok |-> TRUE, tm |-> <<>>])

\* The key, decoded into char secret[20].
ParseKey(toks, otp, window, last_otp, hx) ==
  IF hx.rc # "HOTP_OK" THEN Skip(hx.rc)
  ELSE ParseCounter(toks, otp, window, last_otp, hx.bin,
                    IF Len(toks) >= 5 THEN strtoull(toks[5])
                    ELSE [val |-> U64(0), end |-> 1])

\* ParseLine with the test of the token "-" made whether or not a password
\* is supplied.
ParseLineDashAlways(toks, username, otp, window, passwd, last_otp) ==
  IF Len(toks) = 0 THEN Skip("continue")
  ELSE IF parse_type(toks[1]) = 0 THEN Skip("continue")
  ELSE IF Len(toks) < 2 \/ strcmp(toks[2], username) # 0 THEN Skip("continue")
  ELSE IF passwd # <<>> /\ Len(toks) < 3 THEN Skip("continue")
  ELSE IF Len(toks) >= 3 /\ strcmp(toks[3], T_DASH) = 0 THEN Skip("HOTP_BAD_PASSWORD")
  ELSE IF passwd # <<>> /\ strcmp(toks[3], passwd[1]) # 0 THEN Skip("HOTP_BAD_PASSWORD")
  ELSE IF Len(toks) < 4 THEN Skip("continue")
  ELSE ParseKey(toks, otp, window, last_otp, hotp_hex2bin(toks[4], 20))

\* The body of parse_usersfile's loop for one line, as the list of its
\* tokens.  passwd is <<>> for NULL and <<p>> for a password p; last_otp
\* says whether the caller passed a time_t to store the last time in.
ParseLine(toks, username, otp, window, passwd, last_otp) ==
  IF Len(toks) = 0 THEN Skip("continue")
  ELSE IF parse_type(toks[1]) = 0 THEN Skip("continue")
  ELSE IF Len(toks) < 2 \/ strcmp(toks[2], username) # 0 THEN Skip("continue")
  ELSE IF passwd # <<>> /\ Len(toks) < 3 THEN Skip("continue")
  ELSE IF passwd # <<>> /\ strcmp(toks[3], T_DASH) = 0 THEN Skip("HOTP_BAD_PASSWORD")
  ELSE IF passwd # <<>> /\ strcmp(toks[3], passwd[1]) # 0 THEN Skip("HOTP_BAD_PASSWORD")
  ELSE IF Len(toks) < 4 THEN Skip("continue")
  ELSE ParseKey(toks, otp, window, last_otp, hotp_hex2bin(toks[4], 20))

\* parse_usersfile on the lines getline yields, from line k on; line is the
\* index of the line that ended the loop (0 when the file ran out).
RECURSIVE ParseFrom(_, _, _, _, _, _, _)
ParseNext(lines, k, username, otp, window, passwd, last_otp, r) ==
  IF r.rc = "continue"
  THEN ParseFrom(lines, k + 1, username, otp, window, passwd, last_otp)
  ELSE [line |-> k] @@ r

ParseFrom(lines, k, username, otp, window, passwd, last_otp) ==
  IF k > Len(lines) THEN [line |-> 0] @@ Skip("HOTP_UNKNOWN_USER")
  ELSE ParseNext(lines, k, username, otp, window, passwd, last_otp,
                 ParseLine(strtok_r(lines[k]), username, otp, window, passwd,
                           last_otp))

parse_usersfile(username, otp, window, passwd, last_otp, content) ==
  ParseFrom(Lines(content), 1, username, otp, window, passwd, last_otp)

(***************************************************************************)
(* The processes, the file system and the calls                            *)
(***************************************************************************)
\* Bounds of the model.
MaxCalls == 3
MaxSeqCalls == 2
MaxWindow == 1
MaxFaults == 2
MaxLibWindow == 2
MaxFairCalls == 2
MaxDigest == 200
MaxClock == 1

\* The size of a stream's buffer: BUFSIZ of the C library, and a buffer that
\* the files of the model fill.
BUFSIZ == 4096
SmallBuf == 16
BufSizes == {SmallBuf, BUFSIZ}

Procs == {1, 2}

\* Inode numbers: every path and every open stream can pin one.
Inodes == 1..(3 + 3 * Cardinality(Procs))

VARIABLES
  fs,     \* directory: the inode behind usersfile ("file"), usersfile.new
          \* ("new") and usersfile.lock ("lock"); 0 when the path is absent
  data,   \* the content of each inode
  flock,  \* the process holding the fcntl write lock on each inode, or 0
  st,     \* per process: position in hotp_authenticate_usersfile, its
          \* arguments, locals and streams, and a record of its last call
  hist,   \* the run: calls begun, faults left to inject, and what the calls
          \* returned so far
  lib     \* a direct call of a library function: its arguments, what its
          \* environment does, and its result once it has returned

vars == <<fs, data, flock, st, hist, lib>>

\* Names and tokens used by the runs.
U_A == <<"a">>
U_B == <<"b">>
U_Z == <<"z">>
K_A == <<"0", "0">>
K_B == <<"0", "1">>
PW  == <<"p", "w">>
BADPW == <<"x">>

SP == <<" ">>
TAB == <<"\t">>
NL == <<"\n">>

\* time, localtime_r and strftime (timestamp, 30, "%Y-%m-%dT%H:%M:%SL", &now)
\* at clock reading k (seconds after 2009-01-01T00:00:00 local time, k < 60).
strftime(k) ==
  <<"2", "0", "0", "9", "-", "0", "1", "-", "0", "1", "T", "0", "0", ":",
    "0", "0", ":", DigitChar(k \div 10), DigitChar(k % 10), "L">>

\* The OTP of a hex-encoded secret at a small counter.
OtpAt(hexkey, n, digits) ==
  oath_hotp_generate(hotp_hex2bin(hexkey, 20).bin, U64(n), digits).otp

\* The record line "type user passwd key counter" with single spaces.
RecLine(type, user, passwd, key, counter) ==
  type \o SP \o user \o SP \o passwd \o SP \o key \o SP \o counter \o NL

\* A record line with a last OTP and its time.
UsedLine(type, user, passwd, key, counter, last, stamp) ==
  type \o SP \o user \o SP \o passwd \o SP \o key \o SP \o counter \o SP
  \o last \o SP \o stamp \o NL

LineB == T_HOTPE7 \o TAB \o U_B \o TAB \o T_DASH \o TAB \o K_B \o NL

\* Credential files the runs start from.
FileConc == RecLine(T_HOTP, U_A, T_DASH, K_A, <<"9">>) \o LineB

FilePlain ==
  <<"#", " ", "c", "\n">>
  \o UsedLine(T_HOTP, U_A, PW, K_A, <<"1">>, OtpAt(K_A, 1, 6), strftime(0))
  \o LineB

FileBlank ==
  <<"\n">> \o <<" ", "\t", "\n">>
  \o RecLine(T_HOTP, U_A, T_DASH, K_A, <<"1">>)
  \o LineB

FileDup ==
  RecLine(<<"T", "O", "T", "P">>, U_A, T_DASH, K_A, <<"5">>)
  \o T_HOTP \o SP \o U_A \o NL
  \o RecLine(T_HOTP, U_A, PW, K_A, <<"1">>)

FileBadStamp ==
  UsedLine(T_HOTP, U_A, T_DASH, K_A, <<"1">>, OtpAt(K_A, 1, 6),
           <<"2", "0", "2", "0", "-", "1", "3", "-", "4", "0">>)

\* A record whose last time is the second before the epoch.
StampEpoch ==
  <<"1", "9", "6", "9", "-", "1", "2", "-", "3", "1", "T", "2", "3", ":",
    "5", "9", ":", "5", "9", "L">>

FileEpoch == UsedLine(T_HOTP, U_A, T_DASH, K_A, <<"1">>, OtpAt(K_A, 0, 6), StampEpoch)

\* A time with a form feed before the seconds: strtok_r keeps the form feed
\* in the token and strptime skips it.
StampFeed ==
  <<"2", "0", "0", "9", "-", "0", "1", "-", "0", "1", "T", "0", "0", ":",
    "0", "0", ":", "\f", "0", "0", "L">>

\* The last file holds a counter and a time that begin with white space.
SeqFiles ==
  { FilePlain, FileBlank, FileDup, FileBadStamp, FileEpoch,
    UsedLine(T_HOTP, U_A, T_DASH, K_A, <<"\f", "1">>, OtpAt(K_A, 0, 6), StampFeed) }

\* A call: last_otp says whether the argument last_otp is a time_t to store
\* the time of the last OTP in (TRUE) or NULL (FALSE).
Req(username, otp, window, passwd, last_otp) ==
  [username |-> username, otp |-> otp, window |-> window, passwd |-> passwd,
   last_otp |-> last_otp]

\* The calls of the concurrent runs, without password.
ConcRequests ==
  { Req(U_A, OtpAt(K_A, n, 6), MaxWindow, <<>>, FALSE) : n \in 9..10 }
  \cup { Req(U_B, OtpAt(K_B, 0, 7), 0, <<>>, FALSE) }

\* The calls of the single-process runs.
SeqRequests ==
  { Req(U_A, OtpAt(K_A, 1, 6), 0, pw, FALSE) : pw \in {<<>>, <<PW>>, <<BADPW>>} }
  \cup { Req(U_A, OtpAt(K_A, 0, 6), 0, <<>>, l) : l \in BOOLEAN }
  \cup { Req(U_A, OtpAt(K_A, 1, 6), 0, <<>>, TRUE),
         Req(U_A, OtpAt(K_A, 2, 6), MaxWindow, <<>>, FALSE),
         Req(U_A, OtpAt(K_A, 1, 7), 0, <<>>, FALSE),
         Req(U_A, OtpAt(K_A, 5, 6), MaxWindow, <<>>, FALSE),
         Req(U_A, <<"1", "2">>, 0, <<>>, FALSE),
         Req(U_B, OtpAt(K_B, 0, 7), 0, <<>>, FALSE),
         Req(U_Z, OtpAt(K_A, 1, 6), 0, <<>>, FALSE) }

Idle ==
  [pc |-> "idle", username |-> <<>>, otp |-> <<>>, window |-> 0, passwd |-> <<>>,
   last_otp |-> FALSE,
   infh |-> 0, inpos |-> 0, ibuf |-> <<>>, ieof |-> FALSE, lockfh |-> 0, outfh |-> 0, outpos |-> 0,
   obuf |-> <<>>, new_moving_factor |-> U64(0), timestamp |-> <<>>,
   rc |-> "", tmprc1 |-> 0, tmprc2 |-> 0,
   \* the record of the call, for the properties
   result |-> "", parsed |-> "", line |-> 0, start |-> U64(0), pos |-> 0,
   validated |-> FALSE, written |-> <<>>, pre |-> <<>>,
   post |-> <<>>, seen |-> {}, created |-> {}, final |-> {}]

InitWith(content, calls, faults, bufsiz) ==
  /\ fs = [file |-> 1, new |-> 0, lock |-> 0]
  /\ data = [i \in Inodes |-> IF i = 1 THEN content ELSE <<>>]
  /\ flock = [i \in Inodes |-> 0]
  /\ st = [p \in Procs |-> Idle]
  /\ hist = [initial |-> content, ncalls |-> 0, calls |-> calls, faults |-> faults,
             bufsiz |-> bufsiz, clock |-> 0,
             accepted |-> {}, outputs |-> {content}]

\* No direct call of a library function.
NoCall == [pc |-> "none"]

Init == (\E b \in BufSizes : InitWith(FileConc, MaxCalls, 0, b)) /\ lib = NoCall

InitSeq ==
  /\ \E f \in SeqFiles, b \in BufSizes : InitWith(f, MaxSeqCalls, MaxFaults, b)
  /\ lib = NoCall

\* Whether inode i is reachable: through a path or through an open stream.
Referenced(i, nfs, nst) ==
  \/ i \in {nfs.file, nfs.new, nfs.lock}
  \/ \E p \in Procs : i \in {nst[p].infh, nst[p].lockfh, nst[p].outfh}

\* The lowest unused inode number, for a file that fopen creates.
FreshInode == CHOOSE i \in Inodes :
  /\ ~Referenced(i, fs, st)
  /\ \A j \in Inodes : j < i => Referenced(j, fs, st)

\* The next state.  An inode that nothing refers to any more is freed.
Commit(nfs, ndata, nflock, nst, nhist) ==
  /\ fs' = nfs
  /\ st' = nst
  /\ hist' = nhist
  /\ lib' = lib
  /\ data' = [i \in Inodes |-> IF Referenced(i, nfs, nst) THEN ndata[i] ELSE <<>>]
  /\ flock' = [i \in Inodes |-> IF Referenced(i, nfs, nst) THEN nflock[i] ELSE 0]

\* write (2) of bytes at offset pos of a file's content; a gap left by a
\* truncation reads as NUL bytes.
RECURSIVE Nuls(_)
Nuls(n) == IF n <= 0 THEN <<>> ELSE <<NUL>> \o Nuls(n - 1)

WritePadded(padded, pos, bytes) ==
  SubSeq(padded, 1, pos) \o bytes \o SubSeq(padded, pos + Len(bytes) + 1, Len(padded))

WriteAt(content, pos, bytes) ==
  IF bytes = <<>> THEN content
  ELSE WritePadded(content \o Nuls(pos - Len(content)), pos, bytes)

\* The numbers of bytes a failing write-out of n bytes can leave in the file.
ShortWrites(n) == 0..(n - 1)

\* fclose of a stream on the lock file: a process's fcntl lock on an inode
\* ends when it closes a descriptor of it.
\* An fclose that leaves the lock in place.
StillLocked(p, ino) == flock

Unlocked(p, ino) == [flock EXCEPT ![ino] = IF flock[ino] = p THEN 0 ELSE flock[ino]]

\* hotp_authenticate_usersfile returns code: free (line); fclose (infh).
\* live is the content of usersfile once the call has returned.
Returned(s, code, live) ==
  [s EXCEPT !.pc = "idle", !.result = code, !.infh = 0, !.inpos = 0,
            !.ibuf = <<>>, !.ieof = FALSE,
            !.lockfh = 0, !.outfh = 0, !.outpos = 0, !.obuf = <<>>,
            !.post = live]

Fault(h) == [h EXCEPT !.faults = @ - 1]

(***************************************************************************)
(* hotp_authenticate_usersfile, up to the call of update_usersfile         *)
(***************************************************************************)
\* fopen (usersfile, "r"), parse_usersfile, and the timestamp.  The file is
\* read as it is when the call parses it.  A failing fopen returns
\* HOTP_NO_SUCH_FILE, whatever made it fail.  time () gives the second of
\* the last call or a later one, up to MaxClock.  A failing time, localtime_r or strftime
\* returns HOTP_TIME_ERROR (the stream infh is then never closed, which
\* changes nothing another call can see).
Seconds(last) == {t \in {last, last + 1} : t <= MaxClock}

NotOpened(s0) ==
  [s0 EXCEPT !.parsed = "", !.line = 0, !.start = U64(0), !.pos = 0,
             !.validated = FALSE]

BeginTimed(p, pr, s0, h1, t) ==
  Commit(fs, data, flock,
         [st EXCEPT ![p] = [s0 EXCEPT !.pc = "update", !.infh = fs.file,
                                      !.new_moving_factor = pr.mf,
                                      !.timestamp = strftime(t)]],
         [h1 EXCEPT !.clock = t])

BeginParsed(p, r, live, pr, s0, h1) ==
  \/ /\ fs.file = 0
     /\ Commit(fs, data, flock,
               [st EXCEPT ![p] = Returned(NotOpened(s0), "HOTP_NO_SUCH_FILE", live)],
               h1)
  \/ /\ fs.file # 0
     /\ hist.faults > 0
     /\ Commit(fs, data, flock,
               [st EXCEPT ![p] = Returned(NotOpened(s0), "HOTP_NO_SUCH_FILE", live)],
               Fault(h1))
  \/ /\ fs.file # 0
     /\ pr.rc # "HOTP_OK"
     /\ Commit(fs, data, flock, [st EXCEPT ![p] = Returned(s0, pr.rc, live)], h1)
  \/ /\ fs.file # 0
     /\ pr.rc = "HOTP_OK"
     /\ \/ \E t \in Seconds(hist.clock) : BeginTimed(p, pr, s0, h1, t)
        \/ /\ hist.faults > 0
           /\ Commit(fs, data, flock,
                     [st EXCEPT ![p] = Returned(s0, "HOTP_TIME_ERROR", live)],
                     Fault(h1))

BeginRead(p, r, live, pr) ==
  BeginParsed(p, r, live, pr,
              [Idle EXCEPT !.username = r.username, !.otp = r.otp,
                           !.window = r.window, !.passwd = r.passwd,
                           !.last_otp = r.last_otp,
                           !.pre = live, !.seen = hist.accepted,
                           !.parsed = pr.rc, !.line = pr.line, !.start = pr.start,
                           !.pos = pr.pos,
                           !.validated = pr.validated],
              [hist EXCEPT !.ncalls = @ + 1])

BeginOpened(p, r, live) ==
  BeginRead(p, r, live,
            parse_usersfile(r.username, r.otp, r.window, r.passwd, r.last_otp,
                            live))

Begin(p, r) ==
  /\ st[p].pc = "idle"
  /\ hist.ncalls < hist.calls
  /\ BeginOpened(p, r, IF fs.file = 0 THEN <<>> ELSE data[fs.file])

(***************************************************************************)
(* update_usersfile                                                        *)
(***************************************************************************)
\* fseek (infh, 0L, SEEK_SET) and clearerr (infh), asprintf (&lockfile, ...)
\* and fopen (lockfile, "w"): the seek drops what infh has buffered and puts
\* its offset at 0; the lock file is created when absent, opened (and
\* truncated) when present.  Each of the three calls can fail.
OpenLock(p) ==
  /\ st[p].pc = "update"
  /\ LET s == st[p]
         live == data[fs.file]
         ino == IF fs.lock = 0 THEN FreshInode ELSE fs.lock
     IN \/ /\ hist.faults > 0
           /\ \E code \in {"HOTP_FILE_SEEK_ERROR", "HOTP_PRINTF_ERROR",
                           "HOTP_FILE_CREATE_ERROR"} :
                Commit(fs, data, flock, [st EXCEPT ![p] = Returned(s, code, live)],
                       Fault(hist))
        \/ Commit([fs EXCEPT !.lock = ino], [data EXCEPT ![ino] = <<>>], flock,
                  [st EXCEPT ![p] = [s EXCEPT !.pc = "lock", !.inpos = 0,
                                              !.ibuf = <<>>, !.ieof = FALSE,
                                              !.lockfh = ino,
                                              !.created = @ \cup {"lock"}]],
                  hist)

\* fcntl (fileno (lockfh), F_SETLKW, &l): blocks while another process holds
\* the lock on the inode lockfh is open on; EINTR retries.  Any other
\* failure closes lockfh and returns HOTP_FILE_LOCK_ERROR.
Lock(p) ==
  /\ st[p].pc = "lock"
  /\ LET s == st[p]
     IN \/ /\ flock[s.lockfh] \in {0, p}
           /\ Commit(fs, data, [flock EXCEPT ![s.lockfh] = p],
                     [st EXCEPT ![p] = [s EXCEPT !.pc = "opennew"]], hist)
        \/ /\ hist.faults > 0
           /\ Commit(fs, data, Unlocked(p, s.lockfh),
                     [st EXCEPT ![p] = Returned(s, "HOTP_FILE_LOCK_ERROR", data[fs.file])],
                     Fault(hist))

\* asprintf (&newfilename, ...) and fopen (newfilename, "w"): creates
\* usersfile.new, or truncates the one that is there.  When either fails
\* lockfh is closed.
OpenNew(p) ==
  /\ st[p].pc = "opennew"
  /\ LET s == st[p]
         ino == IF fs.new = 0 THEN FreshInode ELSE fs.new
     IN \/ Commit([fs EXCEPT !.new = ino], [data EXCEPT ![ino] = <<>>], flock,
                  [st EXCEPT ![p] = [s EXCEPT !.pc = "copy", !.outfh = ino,
                                              !.outpos = 0, !.obuf = <<>>,
                                              !.created = @ \cup {"new"}]],
                  hist)
        \/ /\ hist.faults > 0
           /\ \E code \in {"HOTP_PRINTF_ERROR", "HOTP_FILE_CREATE_ERROR"} :
                Commit(fs, data, Unlocked(p, s.lockfh),
                       [st EXCEPT ![p] = Returned(s, code, data[fs.file])],
                       Fault(hist))

\* What one iteration of update_usersfile2's loop passes to fputs or fprintf
\* for the line it read, as the pieces the stream is given one after the
\* other: the string of fputs, or the literal parts and the conversions of
\* "%s\t%s\t%s\t%s\t%llu\t%s\t%s\n".  <<>> when it writes nothing.
OutputPieces(origline, toks, username, otp, timestamp, new_moving_factor) ==
  IF Len(toks) = 0 THEN <<>>
  ELSE IF Len(toks) < 2 \/ strcmp(toks[2], username) # 0 THEN <<origline>>
  ELSE <<toks[1], TAB, username,
         TAB, IF Len(toks) >= 3 THEN toks[3] ELSE T_DASH,
         TAB, IF Len(toks) >= 4 THEN toks[4] ELSE T_DASH,
         TAB, FmtLLU(new_moving_factor), TAB, otp, TAB, timestamp, NL>>

OutputFor(line, username, otp, timestamp, new_moving_factor) ==
  OutputPieces(CStr(line), strtok_r(line), username, otp, timestamp,
               new_moving_factor)

RECURSIVE Joined(_, _)
Joined(pieces, i) ==
  IF i > Len(pieces) THEN <<>> ELSE pieces[i] \o Joined(pieces, i + 1)

\* getline from infh, a stream with a buffer of bufsiz bytes: a line is taken
\* from what is buffered; when that holds no newline the stream reads the
\* next bufsiz bytes of the file, as the file is then, at the offset of its
\* descriptor.  At the end of the file it gives the rest without newline,
\* and then nothing: once a read has found the end, the stream reads no more.
\* in is [ibuf, inpos, ieof], acc the part of the line found so far.
Newline(buf) == CHOOSE j \in 1..Len(buf) : buf[j] = "\n" /\ \A i \in 1..(j - 1) : buf[i] # "\n"

Chunk(content, pos, bufsiz) ==
  IF pos >= Len(content) THEN <<>>
  ELSE SubSeq(content, pos + 1, IF pos + bufsiz < Len(content) THEN pos + bufsiz
                                ELSE Len(content))

RECURSIVE StreamLine(_, _, _, _)
Underflow(content, bufsiz, in, acc, chunk) ==
  IF chunk = <<>> THEN [line |-> acc, ibuf |-> <<>>, inpos |-> in.inpos, ieof |-> TRUE]
  ELSE StreamLine(content, bufsiz,
                  [ibuf |-> chunk, inpos |-> in.inpos + Len(chunk), ieof |-> FALSE], acc)

StreamLine(content, bufsiz, in, acc) ==
  IF \E j \in 1..Len(in.ibuf) : in.ibuf[j] = "\n"
  THEN [line |-> acc \o SubSeq(in.ibuf, 1, Newline(in.ibuf)),
        ibuf |-> SubSeq(in.ibuf, Newline(in.ibuf) + 1, Len(in.ibuf)),
        inpos |-> in.inpos, ieof |-> in.ieof]
  ELSE IF in.ieof THEN [line |-> acc \o in.ibuf, ibuf |-> <<>>, inpos |-> in.inpos,
                        ieof |-> TRUE]
  ELSE Underflow(content, bufsiz, in, acc \o in.ibuf,
                 Chunk(content, in.inpos, bufsiz))

\* fputs and fprintf on outfh, a fully buffered stream with a buffer of
\* bufsiz bytes that it gets at its first write.  A piece that fits in the
\* free part of the buffer is put there.  Otherwise the buffer is filled and
\* written out, then as many whole blocks of bufsiz bytes of the rest of the
\* piece are written, and what remains of it is put in the buffer.
\* o is [out, obuf, fresh]: the bytes written out so far, the buffer, and
\* whether the stream has no buffer yet.
Space(o, bufsiz) == IF o.fresh THEN 0 ELSE bufsiz - Len(o.obuf)

Overflow(o, bufsiz, head, rest) ==
  [out |-> o.out \o o.obuf \o head \o SubSeq(rest, 1, Len(rest) - (Len(rest) % bufsiz)),
   obuf |-> SubSeq(rest, Len(rest) - (Len(rest) % bufsiz) + 1, Len(rest)),
   fresh |-> FALSE]

xsputn(o, bufsiz, piece) ==
  IF piece = <<>> THEN o
  ELSE IF Len(piece) <= Space(o, bufsiz) THEN [o EXCEPT !.obuf = @ \o piece]
  ELSE Overflow(o, bufsiz, SubSeq(piece, 1, Space(o, bufsiz)),
                SubSeq(piece, Space(o, bufsiz) + 1, Len(piece)))

RECURSIVE PutPieces(_, _, _, _)
PutPieces(o, bufsiz, pieces, i) ==
  IF i > Len(pieces) THEN o
  ELSE PutPieces(xsputn(o, bufsiz, pieces[i]), bufsiz, pieces, i + 1)

\* The stream outfh of a process before an fputs or fprintf: it has no
\* buffer as long as nothing was written to it.
OutStream(s) == [out |-> <<>>, obuf |-> s.obuf, fresh |-> s.outpos = 0 /\ s.obuf = <<>>]

\* One iteration of update_usersfile2's loop: getline from infh, and fputs
\* or fprintf to outfh.  fputs and fprintf fail when a write to the file
\* fails: only a part of what was to be written has then reached the file,
\* and what was buffered is lost.
CopyFlush(p, s, out, read, blk, rest) ==
  \/ Commit(fs, [data EXCEPT ![s.outfh] = WriteAt(@, s.outpos, blk)], flock,
            [st EXCEPT ![p] = [read EXCEPT !.outpos = @ + Len(blk), !.obuf = rest,
                                           !.written = @ \o out]],
            hist)
  \/ /\ hist.faults > 0
     /\ \E k \in ShortWrites(Len(blk)) :
          Commit(fs, [data EXCEPT ![s.outfh] = WriteAt(@, s.outpos, SubSeq(blk, 1, k))],
                 flock,
                 [st EXCEPT ![p] = [read EXCEPT !.pc = "closelock",
                                                !.rc = "HOTP_PRINTF_ERROR",
                                                !.outpos = @ + k, !.obuf = <<>>]],
                 Fault(hist))

CopyWrite(p, s, out, read, o) ==
  IF o.out = <<>>
  THEN Commit(fs, data, flock,
              [st EXCEPT ![p] = [read EXCEPT !.obuf = o.obuf, !.written = @ \o out]],
              hist)
  ELSE CopyFlush(p, s, out, read, o.out, o.obuf)

CopyRead(p, s, read, line, pieces) ==
  IF line = <<>>
  THEN Commit(fs, data, flock,
              [st EXCEPT ![p] = [read EXCEPT !.pc = "closelock", !.rc = "HOTP_OK"]], hist)
  ELSE IF pieces = <<>>
  THEN Commit(fs, data, flock, [st EXCEPT ![p] = read], hist)
  ELSE CopyWrite(p, s, Joined(pieces, 1), read,
                 PutPieces(OutStream(s), hist.bufsiz, pieces, 1))

CopyGot(p, s, got) ==
  CopyRead(p, s,
           [s EXCEPT !.ibuf = got.ibuf, !.inpos = got.inpos, !.ieof = got.ieof],
           got.line,
           OutputFor(got.line, s.username, s.otp, s.timestamp, s.new_moving_factor))

CopyLine(p) ==
  /\ st[p].pc = "copy"
  /\ CopyGot(p, st[p], StreamLine(data[st[p].infh], hist.bufsiz, st[p], <<>>))

\* fclose (lockfh): this releases the lock.
CloseLock(p) ==
  /\ st[p].pc = "closelock"
  /\ LET s == st[p]
     IN Commit(fs, data, Unlocked(p, s.lockfh),
               [st EXCEPT ![p] = [s EXCEPT !.pc = "closeout", !.lockfh = 0]], hist)

\* fclose (outfh): what is still buffered is written out.  When that write
\* fails only a part of it reaches the file; update_usersfile does not look
\* at what fclose returns.
CloseOutWrote(p, s, bytes, h) ==
  Commit(fs, [data EXCEPT ![s.outfh] = WriteAt(@, s.outpos, bytes)], flock,
         [st EXCEPT ![p] = [s EXCEPT !.pc = "rename", !.outfh = 0,
                                     !.outpos = 0, !.obuf = <<>>]],
         IF s.rc = "HOTP_OK" THEN [h EXCEPT !.outputs = @ \cup {s.written}] ELSE h)

CloseOut(p) ==
  /\ st[p].pc = "closeout"
  /\ \/ CloseOutWrote(p, st[p], st[p].obuf, hist)
     \/ /\ hist.faults > 0
        /\ \E k \in ShortWrites(Len(st[p].obuf)) :
             CloseOutWrote(p, st[p], SubSeq(st[p].obuf, 1, k), Fault(hist))

\* tmprc1 = rename (newfilename, usersfile): fails when usersfile.new is
\* not there, and when the system refuses it.
Rename(p) ==
  /\ st[p].pc = "rename"
  /\ LET s == st[p]
         failed == [st EXCEPT ![p] = [s EXCEPT !.pc = "unlink", !.tmprc1 = -1,
                                               !.final = @ \cup {"rename"}]]
     IN \/ /\ fs.new = 0
           /\ Commit(fs, data, flock, failed, hist)
        \/ /\ fs.new # 0
           /\ Commit([fs EXCEPT !.file = fs.new, !.new = 0], data, flock,
                     [st EXCEPT ![p] = [s EXCEPT !.pc = "unlink", !.tmprc1 = 0,
                                                 !.final = @ \cup {"rename"}]],
                     hist)
        \/ /\ fs.new # 0
           /\ hist.faults > 0
           /\ Commit(fs, data, flock, failed, Fault(hist))

\* tmprc2 = unlink (lockfile), and the return of update_usersfile and of
\* hotp_authenticate_usersfile.
\* UnlinkCode with the two tests in the other order.
UnlinkCodeUnlinkFirst(s, tmprc2) ==
  IF tmprc2 = -1 THEN "HOTP_FILE_UNLINK_ERROR"
  ELSE IF s.tmprc1 = -1 THEN "HOTP_FILE_RENAME_ERROR"
  ELSE s.rc

UnlinkCode(s, tmprc2) ==
  IF s.tmprc1 = -1 THEN "HOTP_FILE_RENAME_ERROR"
  ELSE IF tmprc2 = -1 THEN "HOTP_FILE_UNLINK_ERROR"
  ELSE s.rc

Unlink(p) ==
  /\ st[p].pc = "unlink"
  /\ LET s == st[p]
         live == data[fs.file]
         ret(tmprc2) ==
           [st EXCEPT ![p] = Returned([s EXCEPT !.tmprc2 = tmprc2,
                                                !.final = @ \cup {"unlink"}],
                                      UnlinkCode(s, tmprc2), live)]
         acc(tmprc2, h) == IF UnlinkCode(s, tmprc2) = "HOTP_OK"
                           THEN [h EXCEPT !.accepted = @ \cup {<<s.username, s.otp>>}]
                           ELSE h
     IN \/ /\ fs.lock = 0
           /\ Commit(fs, data, flock, ret(-1), acc(-1, hist))
        \/ /\ fs.lock # 0
           /\ Commit([fs EXCEPT !.lock = 0], data, flock, ret(0), acc(0, hist))
        \/ /\ fs.lock # 0
           /\ hist.faults > 0
           /\ Commit(fs, data, flock, ret(-1), acc(-1, Fault(hist)))

(***************************************************************************)
(* Direct calls of the library functions                                   *)
(***************************************************************************)
\* Secrets (as bytes), start counters and digests of the direct calls.
\* S_C is the secret "12345678901234567890" of RFC 4226's test values.  With
\* S_A the OTPs of the counters 418590 and 418591 have the same six digits.
S_A == <<0>>
S_B == <<1>>
S_C == <<49, 50, 51, 52, 53, 54, 55, 56, 57, 48, 49, 50, 51, 52, 53, 54, 55, 56, 57, 48>>

LibSecrets == {S_A, S_B, S_C}

LibStarts == {U64(9), U64(418590), <<Limb - 1, Limb - 1, Limb - 1, Limb - 2>>, ULLONG_MAX}

\* Digests handed to the truncation: the HMAC-SHA1 digests of the table, a
\* family of 20-byte strings, the digest of 0xff bytes (offset 15, greatest
\* S), and digests with a small S at offset 0 and at offset 15.
SampleDigest(h) ==
  [i \in 1..20 |-> (h * (i + 7) * 37 + i * i * 11 + (h \div (i + 1))) % 256]

SmallAt(offset, v) ==
  [i \in 1..20 |-> IF i = 20 THEN offset ELSE IF i = offset + 4 THEN v ELSE 0]

LibDigests ==
  {HmacTable[k] : k \in DOMAIN HmacTable}
  \cup {SampleDigest(h) : h \in 0..MaxDigest}
  \cup {[i \in 1..20 |-> 255], SmallAt(0, 42), SmallAt(15, 7)}

LibDigits == 5..9

\* oath_hotp_generate, given what gc_hmac_sha1 returns and delivers.
GenerateCalls ==
  { [pc |-> "args", fn |-> "oath_hotp_generate", gcrc |-> g, hs |-> hs,
     digits |-> d, out |-> <<>>] :
      g \in {"GC_OK", "GC_INVALID_HASH"}, hs \in LibDigests, d \in LibDigits }

\* The OTPs presented to the validation: those of the counters from start
\* to start + MaxLibWindow + 1 with six, seven and eight digits, and one
\* that no counter has.
Handles(secret, start) ==
  { GenerateGc("GC_OK", secret, Add64(start, k), d).otp :
      k \in 0..(MaxLibWindow + 1), d \in {6, 7, 8} }
  \cup { <<"1", "2">> }

\* oath_hotp_validate_callback with strcmp_callback, given the iterations at
\* which gc_hmac_sha1 fails.
ValidateCalls ==
  UNION { { [pc |-> "args", fn |-> "oath_hotp_validate_callback", gcfail |-> f,
             secret |-> s, start_moving_factor |-> c, window |-> w, digits |-> d,
             handle |-> h, out |-> <<>>] :
              f \in {{}} \cup {{k} : k \in 0..MaxLibWindow},
              w \in 0..MaxLibWindow, d \in {5, 6, 7, 8}, h \in Handles(s, c) } :
          s \in LibSecrets, c \in LibStarts }

\* Credential files that hold a record of user a, once with password token
\* pw and once with the token other: a fresh record, a used one, one with a
\* malformed key, one with a malformed counter, one whose last time is the
\* second before the epoch and one whose counter and time hold a form feed.
PwFilePair(pw, other) ==
  { <<RecLine(T_HOTP, U_A, pw, K_A, <<"1">>) \o LineB,
      RecLine(T_HOTP, U_A, other, K_A, <<"1">>) \o LineB>>,
    <<UsedLine(T_HOTPE, U_A, pw, K_A, <<"1">>, OtpAt(K_A, 1, 6), strftime(0)),
      UsedLine(T_HOTPE, U_A, other, K_A, <<"1">>, OtpAt(K_A, 1, 6), strftime(0))>>,
    <<RecLine(T_HOTP, U_A, pw, <<"0", "g">>, <<"1">>),
      RecLine(T_HOTP, U_A, other, <<"0", "g">>, <<"1">>)>>,
    <<RecLine(T_HOTP, U_A, pw, K_A, <<"1", "x">>),
      RecLine(T_HOTP, U_A, other, K_A, <<"1", "x">>)>>,
    <<UsedLine(T_HOTP, U_A, pw, K_A, <<"1">>, OtpAt(K_A, 0, 6), StampEpoch),
      UsedLine(T_HOTP, U_A, other, K_A, <<"1">>, OtpAt(K_A, 0, 6), StampEpoch)>>,
    <<UsedLine(T_HOTP, U_A, pw, K_A, <<"\f", "1">>, OtpAt(K_A, 0, 6), StampFeed),
      UsedLine(T_HOTP, U_A, other, K_A, <<"\f", "1">>, OtpAt(K_A, 0, 6), StampFeed)>> }

PwTokens == {T_DASH, PW, BADPW}

\* parse_usersfile for user a on a file, and on the file that differs from
\* it in the password token of a's record.
ParseCalls ==
  UNION { { [pc |-> "args", fn |-> "parse_usersfile", username |-> U_A,
             otp |-> o, window |-> w, passwd |-> pw, last_otp |-> l,
             content |-> f[1], other |-> f[2], out |-> <<>>] :
              o \in {OtpAt(K_A, 1, 6), OtpAt(K_A, 2, 6), <<"1", "2">>},
              w \in 0..MaxWindow, pw \in {<<>>, <<PW>>, <<BADPW>>},
              l \in BOOLEAN,
              f \in PwFilePair(t, u) } :
          t \in PwTokens, u \in PwTokens }

InitLib ==
  InitWith(<<>>, 0, 0, BUFSIZ) /\ lib \in GenerateCalls \cup ValidateCalls \cup ParseCalls

Returns(out) ==
  /\ lib' = [lib EXCEPT !.pc = "done", !.out = out]
  /\ UNCHANGED <<fs, data, flock, st, hist>>

Generate ==
  /\ lib.pc = "args"
  /\ lib.fn = "oath_hotp_generate"
  /\ Returns(HmacDone(lib.gcrc, lib.hs, lib.digits))

ValidateCallback ==
  /\ lib.pc = "args"
  /\ lib.fn = "oath_hotp_validate_callback"
  /\ Returns(ValidateGc(lib.gcfail, lib.secret, lib.start_moving_factor,
                        lib.window, lib.digits, lib.handle))

Parse ==
  /\ lib.pc = "args"
  /\ lib.fn = "parse_usersfile"
  /\ Returns([a |-> parse_usersfile(lib.username, lib.otp, lib.window, lib.passwd,
                                    lib.last_otp, lib.content),
              b |-> parse_usersfile(lib.username, lib.otp, lib.window, lib.passwd,
                                    lib.last_otp, lib.other)])

(***************************************************************************)
(* Specifications                                                          *)
(***************************************************************************)
Step(p) ==
  \/ OpenLock(p) \/ Lock(p) \/ OpenNew(p) \/ CopyLine(p)
  \/ CloseLock(p) \/ CloseOut(p) \/ Rename(p) \/ Unlink(p)

\* Concurrent calls of the processes on one credential file.
Next ==
  \/ \E p \in Procs, r \in ConcRequests : Begin(p, r)
  \/ \E p \in Procs : Step(p)

Spec == Init /\ [][Next]_vars

\* One process, calls one after the other, with failing system calls.
NextSeq ==
  \/ \E r \in SeqRequests : Begin(1, r)
  \/ Step(1)

SpecSeq == InitSeq /\ [][NextSeq]_vars

\* Concurrent calls for one user on a one-line file, where a system call
\* can fail, every process that can take a step eventually takes one, and a
\* process that waits for the lock gets it if the lock is free again and
\* again.
FileOne == RecLine(T_HOTP, U_A, T_DASH, K_A, <<"9">>)

InitFair == (\E b \in BufSizes : InitWith(FileOne, MaxFairCalls, 1, b)) /\ lib = NoCall

NextFair ==
  \/ \E p \in Procs : Begin(p, Req(U_A, OtpAt(K_A, 9, 6), 0, <<>>, FALSE))
  \/ \E p \in Procs : Step(p)

\* Weak fairness of CopyLine(p), with its enabling condition written out: the
\* copy loop can always take its next step, a line or the end of the stream.
CopyEnabled(p) == st[p].pc = "copy"
CopyMoves(p) == st[p].pc = "copy" /\ st'[p] # st[p]
CopyFair(p) == (<>[]CopyEnabled(p)) => []<><<CopyMoves(p)>>_vars

Fairness ==
  \A p \in Procs :
    /\ WF_vars(OpenLock(p)) /\ SF_vars(Lock(p)) /\ WF_vars(OpenNew(p))
    /\ CopyFair(p)
    /\ WF_vars(CloseLock(p)) /\ WF_vars(CloseOut(p))
    /\ WF_vars(Rename(p)) /\ WF_vars(Unlink(p))

SpecFair == InitFair /\ [][NextFair]_vars /\ Fairness

\* One direct call of a library function.
NextLib == Generate \/ ValidateCallback \/ Parse

SpecLib == InitLib /\ [][NextLib]_vars

(***************************************************************************)
(* Properties                                                              *)
(***************************************************************************)
\* The calls that have returned, and the processes holding an fcntl lock.
Finished(p) == st[p].pc = "idle" /\ st[p].result # ""

LockHolders == {p \in Procs : \E i \in Inodes : flock[i] = p}

\* The content a reader gets by opening usersfile.
Live == data[fs.file]

\* C1: replay rejection over any interleaving: a call authenticate(u, X)
\* that starts after a call authenticate(u, X) has returned HOTP_OK ends with
\* a result other than HOTP_OK.
C1_ReplayRejected ==
  \A p \in Procs :
    (Finished(p) /\ <<st[p].username, st[p].otp>> \in st[p].seen)
    => st[p].result # "HOTP_OK"

\* C2: atomic visibility: the content of usersfile is always the file the
\* run started from or the complete output of one finished rewrite.
C2_AtomicVisibility == Live \in hist.outputs

\* C3: mutual exclusion: at most one process is between its successful
\* F_SETLKW and its fclose of the lock file.
C3_MutualExclusion == Cardinality(LockHolders) <= 1

\* C4: concurrent-update outcome: when two calls for the same user read the
\* same starting counter and both validate, then once both have returned
\* usersfile is exactly the complete output of one of the two writers.
C4_OneWriterWins ==
  \A p, q \in Procs :
    ( /\ p # q
      /\ hist.ncalls = 2
      /\ Finished(p) /\ Finished(q)
      /\ st[p].parsed = "HOTP_OK" /\ st[q].parsed = "HOTP_OK"
      /\ st[p].username = st[q].username
      /\ st[p].start = st[q].start )
    => Live \in {st[p].written, st[q].written}

\* The moving factor a parse of content reads for username, when the parse
\* gets as far as reading it (an empty OTP never equals a last OTP and is
\* refused by the validation).
StoredFactor(content, username) ==
  parse_usersfile(username, <<>>, 0, <<>>, FALSE, content)

HasFactor(r) == r.rc = "OATH_INVALID_DIGITS"

NotDecreased(old, new) == (HasFactor(old) /\ HasFactor(new)) => ~Less64(new.start, old.start)

\* C5: counter monotonicity: from one state of usersfile to the next, the
\* moving factor stored for a user never decreases.
C5_CounterMonotone ==
  [][\A u \in {U_A, U_B} :
       NotDecreased(StoredFactor(Live, u), StoredFactor(Live', u))]_vars

\* The single-process properties speak of the call process 1 made last.
Call == st[1]

Succeeded == Finished(1) /\ Call.result = "HOTP_OK"

\* C6: no mutation on error: after a call that returned an error other than
\* HOTP_FILE_UNLINK_ERROR, usersfile has the content it had before the call.
C6_NoMutationOnError ==
  (Finished(1) /\ Call.result \notin {"HOTP_OK", "HOTP_FILE_UNLINK_ERROR"})
  => Call.post = Call.pre

\* A line whose username token is not username (or that has none).
Unmatched(toks, username) == Len(toks) < 2 \/ toks[2] # username

SameUnmatched(inl, outl, username) ==
  /\ Len(outl) = Len(inl)
  /\ \A k \in 1..Len(inl) :
       Unmatched(strtok_r(inl[k]), username) => outl[k] = inl[k]

\* C7: unmatched lines are preserved: a successful update leaves every line
\* whose username token differs from the user's (blank, whitespace-only,
\* comment and unrecognized-type lines too) byte for byte in its place, and
\* the file has as many lines as before.
C7_UnmatchedPreserved ==
  Succeeded => SameUnmatched(Lines(Call.pre), Lines(Call.post), Call.username)

SameButLine(inl, outl, line) ==
  /\ Len(outl) = Len(inl)
  /\ \A k \in 1..Len(inl) : k # line => outl[k] = inl[k]

\* C8: exactly one record is replaced: a successful update changes no line
\* but the one the parser selected.
C8_OneLineReplaced ==
  Succeeded => SameButLine(Lines(Call.pre), Lines(Call.post), Call.line)

FirstFour(toks) == SubSeq(toks, 1, 4)

Persisted(c, again) ==
  /\ again.rc = "HOTP_REPLAYED_OTP"
  /\ again.start = Add64(c.start, c.pos)
  /\ ~Less64(again.start, c.start)
  /\ again.tm = strptime(c.timestamp).tm
  /\ FirstFour(strtok_r(Lines(c.post)[again.line]))
       = FirstFour(strtok_r(Lines(c.pre)[c.line]))

\* C9: persisted result of a success: parsing usersfile again for the same
\* user after HOTP_OK finds the moving factor read plus the offset found,
\* the presented OTP as last OTP (so that presenting it again is a replay),
\* the new timestamp, and type, username, password and secret as before.
C9_PersistedResult ==
  Succeeded
  => Persisted(Call, parse_usersfile(Call.username, Call.otp, 0, Call.passwd,
                                      Call.last_otp, Call.post))

\* The store record of username: the tokens of the first line whose type is
\* recognized and whose username matches; <<>> when there is none.
RECURSIVE RecordFrom(_, _, _)
RecordAt(lines, k, username, toks) ==
  IF Len(toks) >= 2 /\ parse_type(toks[1]) # 0 /\ toks[2] = username THEN toks
  ELSE RecordFrom(lines, k + 1, username)

RecordFrom(lines, k, username) ==
  IF k > Len(lines) THEN <<>> ELSE RecordAt(lines, k, username, strtok_r(lines[k]))

StoreRecord(content, username) == RecordFrom(Lines(content), 1, username)

HasLastOtp(toks, otp) == Len(toks) >= 6 /\ toks[6] = otp

\* The call presented the last OTP of the user's store record.
PresentedLast(c) ==
  /\ Finished(1)
  /\ HasLastOtp(StoreRecord(c.pre, c.username), c.otp)

\* fopen (usersfile, "r") gave the call a stream.
Opened(c) == c.parsed # ""

Untouched(c) == ~c.validated /\ c.created = {} /\ c.post = c.pre

\* C10 as stated: a call that presents the last OTP of the user's record
\* returns HOTP_REPLAYED_OTP, whatever else the record and the call hold
\* (taken for the calls that could open usersfile).
C10_ReplayAlways ==
  (PresentedLast(Call) /\ Opened(Call))
  => (Call.result = "HOTP_REPLAYED_OTP" /\ Untouched(Call))

\* The checks parse_usersfile makes on a record before it compares the last
\* OTP, in its order: the password (when one is supplied), the key, the
\* counter, the time (its form, and its value when the caller asked for it
\* with last_otp).  The result is the error of the first check that fails,
\* and HOTP_REPLAYED_OTP when none does.
StampPasses(tp, last_otp) == tp.ok /\ (last_otp => ~MktimeIsMinusOne(tp.tm))

ReplayResult(toks, passwd, last_otp) ==
  IF passwd # <<>> /\ (toks[3] = T_DASH \/ toks[3] # passwd[1])
  THEN "HOTP_BAD_PASSWORD"
  ELSE IF hotp_hex2bin(toks[4], 20).rc # "HOTP_OK" THEN hotp_hex2bin(toks[4], 20).rc
  ELSE IF strtoull(toks[5]).end # Len(toks[5]) + 1 THEN "HOTP_INVALID_COUNTER"
  ELSE IF Len(toks) >= 7 /\ ~StampPasses(strptime(toks[7]), last_otp)
       THEN "HOTP_INVALID_TIMESTAMP"
  ELSE "HOTP_REPLAYED_OTP"

\* C10, amended: a call that presents the last OTP of the user's record
\* returns HOTP_NO_SUCH_FILE when it cannot open usersfile; otherwise it
\* returns the error of the first check that the record fails among those
\* made before the replay test, and HOTP_REPLAYED_OTP when the record passes
\* them all.  In every case it runs no validation, creates neither
\* usersfile.lock nor usersfile.new, and leaves usersfile unchanged.
C10_ReplayAfterChecks ==
  PresentedLast(Call)
  => /\ Untouched(Call)
     /\ Call.result = IF ~Opened(Call) THEN "HOTP_NO_SUCH_FILE"
                      ELSE ReplayResult(StoreRecord(Call.pre, Call.username),
                                        Call.passwd, Call.last_otp)

\* The last OTP is presented with the right password, at the second call.
C10_Witness ==
  /\ PresentedLast(Call)
  /\ Call.result = "HOTP_REPLAYED_OTP"
  /\ Call.passwd # <<>>
  /\ hist.ncalls = 2

(***************************************************************************)
(* Properties of the library functions                                     *)
(***************************************************************************)
Validated == lib.pc = "done" /\ lib.fn = "oath_hotp_validate_callback"

\* The candidate of iteration k of a call c: what oath_hotp_generate gives
\* for the counter start_moving_factor + k (in uint64_t arithmetic).
Candidate(c, k) ==
  GenerateGc(IF k \in c.gcfail THEN "GC_INVALID_HASH" ELSE "GC_OK",
             c.secret, Add64(c.start_moving_factor, k), c.digits)

\* The iterations at which the search has to end: a failing generation or
\* an accepted candidate.
Ends(c, k) == Candidate(c, k).rc # "OATH_OK" \/ Candidate(c, k).otp = c.handle

EndIters(c) == {k \in 0..c.window : Ends(c, k)}

Least(S) == CHOOSE k \in S : \A j \in S : k <= j

CountersUpTo(c, last) == [k \in 1..(last + 1) |-> Add64(c.start_moving_factor, k - 1)]

EndsAt(c, k, g) ==
  /\ c.out.tried = CountersUpTo(c, k)
  /\ IF g.rc # "OATH_OK" THEN c.out.err = g.rc
     ELSE c.out.err = "" /\ c.out.pos = k

WindowSearched(c, ends) ==
  IF ends = {}
  THEN c.out.err = "OATH_INVALID_OTP" /\ c.out.tried = CountersUpTo(c, c.window)
  ELSE EndsAt(c, Least(ends), Candidate(c, Least(ends)))

\* C11: window search: oath_hotp_validate_callback returns the least iter in
\* 0..window whose candidate (the OTP of start_moving_factor + iter) the
\* comparison accepts, generates the candidates of the iterations up to that
\* one and no other, returns OATH_INVALID_OTP after the candidates of
\* 0..window when none is accepted, and returns the error of the first
\* failing generation at once.
C11_WindowSearch == Validated => WindowSearched(lib, EndIters(lib))

\* A hit at the second of three candidates, and a failure that is not reached.
C11_Witness ==
  /\ Validated
  /\ lib.window = 2 /\ lib.gcfail = {2}
  /\ lib.out.err = "" /\ lib.out.pos = 1

\* The OTP oath_hotp_generate gives for the counter start_moving_factor + k.
OtpOf(c, k) == oath_hotp_generate(c.secret, Add64(c.start_moving_factor, k), c.digits).otp

\* A validation of a generated OTP: the MAC works and digits is supported.
RoundTrip == Validated /\ lib.gcfail = {} /\ lib.digits \in {6, 7, 8}

Found(c, k) == c.out.err = "" /\ c.out.pos = k

\* C12 as stated: validating the OTP generated at start + k returns k for
\* every k in 0..window, and OATH_INVALID_OTP for the OTP of start + window + 1.
C12_RoundTrip ==
  RoundTrip
  => \A k \in 0..(lib.window + 1) :
       lib.handle = OtpOf(lib, k)
       => IF k <= lib.window THEN Found(lib, k) ELSE lib.out.err = "OATH_INVALID_OTP"

\* The iterations of the window whose candidate is the OTP of start + k.
SameOtp(c, k) == {j \in 0..c.window : OtpOf(c, j) = OtpOf(c, k)}

FoundLeast(c, same) ==
  IF same = {} THEN c.out.err = "OATH_INVALID_OTP" ELSE Found(c, Least(same))

\* C12, amended: validating the OTP generated at start + k, 0 <= k <=
\* window + 1, returns the least j in 0..window whose OTP is that of
\* start + k, and OATH_INVALID_OTP when there is none: it returns k when
\* k <= window and no earlier counter of the window has the same OTP.
C12_RoundTripLeast ==
  RoundTrip
  => \A k \in 0..(lib.window + 1) :
       lib.handle = OtpOf(lib, k) => FoundLeast(lib, SameOtp(lib, k))

\* The OTP of the last counter of a window of three is found there.
C12_Witness ==
  /\ RoundTrip
  /\ lib.window = 2
  /\ lib.handle = OtpOf(lib, 2)
  /\ Found(lib, 2)

Generated == lib.pc = "done" /\ lib.fn = "oath_hotp_generate" /\ lib.gcrc = "GC_OK"

\* The number a string of decimal digits denotes.
RECURSIVE DecValue(_)
DecValue(str) ==
  IF str = <<>> THEN 0
  ELSE DecValue(SubSeq(str, 1, Len(str) - 1)) * 10 + DigitVal(str[Len(str)])

\* S is the 31-bit number whose bytes are hs[offset] without its top bit,
\* hs[offset + 1], hs[offset + 2], hs[offset + 3] (indexes from 0).
IsTruncation(S, hs, offset) ==
  /\ offset + 3 <= 19
  /\ S \div 16777216 = hs[offset + 1] % 128
  /\ (S \div 65536) % 256 = hs[offset + 2]
  /\ (S \div 256) % 256 = hs[offset + 3]
  /\ S % 256 = hs[offset + 4]

IsOtpOf(otp, S, digits) ==
  /\ Len(otp) = digits
  /\ \A i \in 1..Len(otp) : otp[i] \in DecDigits
  /\ DecValue(otp) = S % (10 ^ digits)

\* The indexes (from 1) of the digest bytes the result may depend on.
ReadBytes(offset) == (offset + 1)..(offset + 4) \cup {20}

OnlyReads(c, offset) ==
  \A i \in (1..20) \ ReadBytes(offset) :
    \A v \in {0, 255} :
      HmacDone(c.gcrc, [c.hs EXCEPT ![i] = v], c.digits) = c.out

\* C13: truncation: for a 20-byte digest and digits in 6..8,
\* oath_hotp_generate takes the offset from the low four bits of digest byte
\* 19, forms the 31-bit S of the four bytes from there, depends on no other
\* byte, and returns S mod 10^digits as exactly `digits` decimal characters,
\* zero-padded on the left; for other digits it returns OATH_INVALID_DIGITS
\* and no OTP.
C13_Truncation ==
  Generated
  => IF lib.digits \in {6, 7, 8}
     THEN /\ lib.out.rc = "OATH_OK"
          /\ IsTruncation(TruncValue(lib.hs), lib.hs, lib.hs[20] % 16)
          /\ IsOtpOf(lib.out.otp, TruncValue(lib.hs), lib.digits)
          /\ OnlyReads(lib, lib.hs[20] % 16)
     ELSE lib.out = [rc |-> "OATH_INVALID_DIGITS", otp |-> <<>>]

\* A small S is padded with zeros to eight characters.
C13_Witness ==
  /\ Generated
  /\ lib.hs = SmallAt(0, 42) /\ lib.digits = 8
  /\ lib.out.otp = <<"0", "0", "0", "0", "0", "0", "4", "2">>

ParsedPair == lib.pc = "done" /\ lib.fn = "parse_usersfile"

\* What hotp_authenticate_usersfile does after a parse result r: the code it
\* returns unless the update follows, the moving factor it hands to the
\* update, and whether it rewrites the file.
Outcome(r) ==
  [rc |-> r.rc,
   new_moving_factor |-> IF r.rc = "HOTP_OK" THEN r.mf ELSE U64(0),
   rewrites |-> r.rc = "HOTP_OK"]

\* C14: password independence: without a password from the caller, two
\* files that differ only in the password token of the user's record give
\* the same outcome, and HOTP_BAD_PASSWORD is returned only when the caller
\* supplied a password.
C14_PasswordIndependence ==
  ParsedPair
  => /\ lib.passwd = <<>> => Outcome(lib.out.a) = Outcome(lib.out.b)
     /\ lib.out.a.rc = "HOTP_BAD_PASSWORD" => lib.passwd # <<>>

\* No password supplied, the tokens "-" and "pw", and a successful parse.
C14_Witness ==
  /\ ParsedPair
  /\ lib.passwd = <<>>
  /\ lib.content # lib.other
  /\ T_DASH = strtok_r(getline(lib.content, 0))[3]
  /\ lib.out.a.rc = "HOTP_OK" /\ lib.out.b.rc = "HOTP_OK"

(***************************************************************************)
(* Properties of the update                                                *)
(***************************************************************************)
\* C15: rename under the lock: a process that is about to rename
\* usersfile.new onto usersfile, or to unlink usersfile.lock, holds the
\* exclusive lock.
C15_RenameUnderLock ==
  \A p \in Procs : st[p].pc \in {"rename", "unlink"} => p \in LockHolders

\* Process p publishes its rewrite: its rename puts usersfile.new in place,
\* and usersfile.new is the complete output p wrote (no other process
\* touched it).
Publishes(p) ==
  /\ st[p].pc = "rename" /\ st'[p].pc = "unlink" /\ fs'.file # fs.file
  /\ st[p].rc = "HOTP_OK"
  /\ Live' = st[p].written

OthersKept(p) ==
  \A u \in {U_A, U_B} \ {st[p].username} : StoreRecord(Live', u) = StoreRecord(Live, u)

\* C16: cross-user isolation: when a rewrite made for one user is published,
\* the record of every other user in usersfile is the one that was there
\* just before.
C16_OtherUsersKept == [][\A p \in Procs : Publishes(p) => OthersKept(p)]_vars

\* The call of process 1 got as far as update_usersfile2.
Rewrote == Finished(1) /\ Call.rc # ""

FinalCode(c) ==
  IF c.tmprc1 = -1 THEN "HOTP_FILE_RENAME_ERROR"
  ELSE IF c.tmprc2 = -1 THEN "HOTP_FILE_UNLINK_ERROR"
  ELSE c.rc

\* C17: final-step error priority: whatever update_usersfile2 returned,
\* rename and unlink are both attempted, and the call returns
\* HOTP_FILE_RENAME_ERROR when the rename failed, else
\* HOTP_FILE_UNLINK_ERROR when the unlink failed, else what
\* update_usersfile2 returned (HOTP_OK or HOTP_PRINTF_ERROR).
C17_FinalStepPriority ==
  Rewrote
  => /\ Call.final = {"rename", "unlink"}
     /\ Call.rc \in {"HOTP_OK", "HOTP_PRINTF_ERROR"}
     /\ Call.result = FinalCode(Call)

\* Rename and unlink both failed.
C17_Witness ==
  /\ Rewrote
  /\ Call.tmprc1 = -1 /\ Call.tmprc2 = -1
  /\ Call.result = "HOTP_FILE_RENAME_ERROR"

\* A process waits in F_SETLKW for a lock that another process holds.
Blocked(p) == st[p].pc = "lock" /\ flock[st[p].lockfh] \notin {0, p}

\* C18: termination: every call that has begun eventually returns, with
\* HOTP_OK, HOTP_REPLAYED_OTP or an error; no process waits for the lock
\* for ever.
C18_Termination == \A p \in Procs : (st[p].pc # "idle") ~> Finished(p)

\* A process waits for the lock while the other holds it.
C18_Witness == \E p \in Procs : Blocked(p)

\* The moving factor parse_usersfile stores for the offset a validation
\* returned.
NewFactor(c) == Add64(c.start_moving_factor, c.out.pos)

\* No candidate counter of the call c is below its start counter.
NoCandidateBelow(c) ==
  \A i \in 1..Len(c.out.tried) : ~Less64(c.out.tried[i], c.start_moving_factor)

\* C19: no counter wrap-around: the counters tried by a validation are
\* start, start + 1, ... as integers, so none is smaller than start, and the
\* new moving factor of an accepted OTP, start + offset, is not smaller than
\* start.
C19_NoWrapAround ==
  Validated
  => /\ NoCandidateBelow(lib)
     /\ lib.out.err = "" => ~Less64(NewFactor(lib), lib.start_moving_factor)

\* The digit count of the record a call decided on: parse_type of the type
\* token of its line.
RecordDigits(c) == parse_type(strtok_r(Lines(c.pre)[c.line])[1])

\* The candidate oath_hotp_generate gives for the accepted counter with the
\* digit count of the record.
RecordCandidate(c) ==
  oath_hotp_generate(hotp_hex2bin(strtok_r(Lines(c.pre)[c.line])[4], 20).bin,
                     c.new_moving_factor, RecordDigits(c))

\* C20: the digit count follows the record type: a call returns HOTP_OK
\* only when the presented OTP has the number of digits of the record's type
\* token and equals the candidate generated with that digit count.
C20_DigitsFollowType ==
  Succeeded
  => /\ Len(Call.otp) = RecordDigits(Call)
     /\ Call.otp = RecordCandidate(Call).otp

====
